---- MODULE Spec2Model ----
(***************************************************************************)
(* State-machine model of the MOSFET simulator's device physics engine:    *)
(* the basic square-law evaluator (MOSFETPhysics.calculate_drain_current,  *)
(* in modules/physics_engine.py and again in app_enhanced.py) and the      *)
(* extended evaluator (AdvancedMOSFETPhysics.                              *)
(* calculate_with_short_channel_effects, velocity-saturation variant in    *)
(* modules/advanced_physics.py, simple variant in app_enhanced.py).        *)
(*                                                                         *)
(* Numbers.  The program computes with Python floats.  The model computes  *)
(* the same expressions, operation by operation and in the same order,     *)
(* over exact rationals, so that a statement about a formula is decided    *)
(* by the formula and not by rounding.  TLC's integers are 32 bits wide,   *)
(* so a rational is a sign and two naturals held as little-endian          *)
(* sequences of limbs.                                                     *)
(***************************************************************************)
EXTENDS Integers, Sequences, FiniteSets, TLC

----------------------------------------------------------------------------
(* Naturals of any size: little-endian limbs, no most-significant zero.    *)

Base == 10 * 10 * 10

Limb(a, i) == IF i <= Len(a) THEN a[i] ELSE 0

MaxOf(x, y) == IF x >= y THEN x ELSE y

MinOf(x, y) == IF x <= y THEN x ELSE y

\* the largest element of a non-empty finite set of integers
Top(S) == CHOOSE m \in S : \A j \in S : j <= m

TrimTo(a, nz) == IF nz = {} THEN <<>> ELSE SubSeq(a, 1, Top(nz))

Trim(a) == TrimTo(a, {i \in 1..Len(a) : a[i] # 0})

RECURSIVE Carry(_, _, _)
Carry(cols, i, c) ==
    IF i > Len(cols)
    THEN IF c = 0 THEN <<>> ELSE <<c % Base>> \o Carry(cols, i, c \div Base)
    ELSE <<(cols[i] + c) % Base>> \o Carry(cols, i + 1, (cols[i] + c) \div Base)

NatOf(k) == Trim(Carry(<<k>>, 1, 0))

NatAdd(a, b) ==
    Carry([i \in 1..MaxOf(Len(a), Len(b)) |-> Limb(a, i) + Limb(b, i)], 1, 0)

\* a - b for a >= b
NatSub(a, b) ==
    Trim(Carry([i \in 1..Len(a) |-> a[i] - Limb(b, i)], 1, 0))

RECURSIVE ColSum(_, _, _, _)
ColSum(a, b, k, i) ==
    IF i > MinOf(Len(a), k) THEN 0
    ELSE a[i] * b[k + 1 - i] + ColSum(a, b, k, i + 1)

NatMul(a, b) ==
    IF a = <<>> \/ b = <<>> THEN <<>>
    ELSE Trim(Carry([k \in 1..(Len(a) + Len(b) - 1) |->
                        ColSum(a, b, k, MaxOf(1, k + 1 - Len(b)))], 1, 0))

CmpAt(a, b, df) ==
    IF df = {} THEN 0 ELSE IF a[Top(df)] < b[Top(df)] THEN -1 ELSE 1

\* -1, 0 or 1 as a < b, a = b, a > b
NatCmp(a, b) ==
    IF Len(a) < Len(b) THEN -1
    ELSE IF Len(a) > Len(b) THEN 1
    ELSE CmpAt(a, b, {i \in 1..Len(a) : a[i] # b[i]})

\* a \div k for a divisor k of Base that divides a
Shift(a, k) ==
    Trim([i \in 1..Len(a) |->
             (a[i] \div k) + (Limb(a, i + 1) % k) * (Base \div k)])

\* <<n, d>> with the common factors k removed, for a divisor k of Base
RECURSIVE Strip(_, _)
Strip(nd, k) ==
    IF nd[1][1] % k = 0 /\ nd[2][1] % k = 0
    THEN Strip(<<Shift(nd[1], k), Shift(nd[2], k)>>, k)
    ELSE nd

DivCons(rest, q) == <<Append(rest[1], q), rest[2]>>

\* <<a \div k, a % k>> for a small positive k
RECURSIVE DivStep(_, _, _, _)
DivStep(a, k, i, r) ==
    IF i = 0 THEN <<<<>>, r>>
    ELSE DivCons(DivStep(a, k, i - 1, (r * Base + a[i]) % k),
                 (r * Base + a[i]) \div k)

QuotRemOf(qr) == <<Trim(qr[1]), qr[2]>>

QuotRem(a, k) == QuotRemOf(DivStep(a, k, Len(a), 0))

----------------------------------------------------------------------------
(* Rationals: (-1)^neg * n / d, d > 0; zero is n = <<>>.  A value may have *)
(* several representations (only the common factors 2 and 5 are removed),  *)
(* so rationals are compared with Eq, Lt, Le and never with =.             *)

MkRat(neg, nd) == [neg |-> neg, n |-> nd[1], d |-> nd[2]]

Rat(neg, n, d) ==
    IF n = <<>> THEN [neg |-> FALSE, n |-> <<>>, d |-> <<1>>]
    ELSE MkRat(neg, Strip(Strip(<<n, d>>, 2), 5))

Num(k) == Rat(k < 0, NatOf(IF k < 0 THEN -k ELSE k), <<1>>)

Frac(p, q) == Rat(p < 0, NatOf(IF p < 0 THEN -p ELSE p), NatOf(q))

\* 10^e
Pow10(e) ==
    [i \in 1..((e \div 3) + 1) |->
        IF i <= e \div 3 THEN 0
        ELSE IF e % 3 = 0 THEN 1 ELSE IF e % 3 = 1 THEN 10 ELSE 100]

\* the decimal literal m * 10^e
Dec(m, e) ==
    IF e >= 0
    THEN Rat(m < 0, NatMul(NatOf(IF m < 0 THEN -m ELSE m), Pow10(e)), <<1>>)
    ELSE Rat(m < 0, NatOf(IF m < 0 THEN -m ELSE m), Pow10(-e))

IsZero(x) == x.n = <<>>

Neg(x) == IF IsZero(x) THEN x ELSE [x EXCEPT !.neg = ~x.neg]

Mul(x, y) == Rat(x.neg # y.neg, NatMul(x.n, y.n), NatMul(x.d, y.d))

\* x / y for y # 0
Div(x, y) == Rat(x.neg # y.neg, NatMul(x.n, y.d), NatMul(x.d, y.n))

\* (-1)^xneg * xn / d + (-1)^yneg * yn / d
AddOver(xneg, xn, yneg, yn, d) ==
    IF xneg = yneg THEN Rat(xneg, NatAdd(xn, yn), d)
    ELSE IF NatCmp(xn, yn) >= 0 THEN Rat(xneg, NatSub(xn, yn), d)
    ELSE Rat(yneg, NatSub(yn, xn), d)

Add(x, y) ==
    IF x.d = y.d THEN AddOver(x.neg, x.n, y.neg, y.n, x.d)
    ELSE AddOver(x.neg, NatMul(x.n, y.d), y.neg, NatMul(y.n, x.d),
                 NatMul(x.d, y.d))

Sub(x, y) == Add(x, Neg(y))

Sign(x) == IF IsZero(x) THEN 0 ELSE IF x.neg THEN -1 ELSE 1

\* -1, 0 or 1 as x < y, x = y, x > y
Cmp(x, y) ==
    IF Sign(x) # Sign(y) THEN (IF Sign(x) < Sign(y) THEN -1 ELSE 1)
    ELSE IF Sign(x) = 0 THEN 0
    ELSE IF x.neg THEN NatCmp(NatMul(y.n, x.d), NatMul(x.n, y.d))
    ELSE NatCmp(NatMul(x.n, y.d), NatMul(y.n, x.d))

Eq(x, y) == Cmp(x, y) = 0

Lt(x, y) == Cmp(x, y) < 0

Le(x, y) == Cmp(x, y) <= 0

Sq(x) == Mul(x, x)

Half == Frac(1, 2)

----------------------------------------------------------------------------
(* Faulty variants of single steps of the evaluators.  None is used by the *)
(* model; each is a slip a revision of the code could make, against which  *)
(* a property below is tried.                                              *)

\* cut-off tested with V_gs < V_th
operating_region_strict(V_gs, V_ds, V_th, V_ds_sat) ==
    IF Lt(V_gs, V_th) THEN "Cut-off"
    ELSE IF Lt(V_ds, V_ds_sat) THEN "Linear"
    ELSE "Saturation"

\* the tie V_ds = V_ds_sat taken as Linear
app_operating_region_tie(V_gs, V_ds, V_th, V_ds_sat) ==
    IF Le(V_gs, V_th) THEN "Cut-off"
    ELSE IF Le(V_ds, V_ds_sat) THEN "Linear"
    ELSE "Saturation"

\* the Saturation current without its factor 0.5
I_d_saturation_unhalved(mu_n_si, C_ox, W, L, V_gs, V_th) ==
    Mul(Mul(Mul(mu_n_si, C_ox), Div(W, L)), Sq(Sub(V_gs, V_th)))

\* the Linear current with + 0.5 * V_ds**2
I_d_linear_plus(mu_n_si, C_ox, W, L, V_gs, V_th, V_ds) ==
    Mul(Mul(Mul(mu_n_si, C_ox), Div(W, L)),
        Add(Mul(Sub(V_gs, V_th), V_ds), Mul(Half, Sq(V_ds))))

\* the Saturation current with a width the gate overlap adds to
app_I_d_saturation_overlap(mu_n_si, C_ox, W, L, V_gs, V_th) ==
    Mul(Mul(Mul(Mul(Half, mu_n_si), C_ox), Div(Add(W, Dec(1, -6)), L)),
        Sq(Sub(V_gs, V_th)))

\* dict.get that hands back the default whether or not the key is there
Get_default(dict, key, default) == default

\* a threshold that falls by 3 mV per kelvin
temperature_dependent_vth_3mV(V_th0, T) ==
    Sub(V_th0, Mul(Dec(3, -3), Sub(T, Num(300))))

\* a threshold that DIBL raises
dibl_effect_raising(V_th, V_ds, L) ==
    Add(V_th, Mul(Div(Dec(1, -1), Mul(L, Dec(1, 6))), V_ds))

\* a modulation parameter of 0.1 / L, without the conversion of L to um
channel_length_modulation_per_metre(L, V_ds) == Div(Dec(1, -1), L)

\* the saturation current without the velocity-saturation denominator
short_channel_I_d_sat_long(mu_n, C_ox, W, L, V_gt, EcL) ==
    Mul(Div(Mul(Mul(Mul(Half, mu_n), C_ox), W), L), Sq(V_gt))

\* the breakdown estimate with the thickness taken in metres (1 m = 1e2 cm)
breakdown_voltage_metres(breakdown_field_value, thickness) ==
    Mul(Mul(Mul(breakdown_field_value, Dec(1, 6)), thickness), Dec(1, 2))

\* create_iv_characteristics, with a failing sample left out of the trace
\* instead of drawn as 0
append_sample_skipping(I_d_values, out) ==
    IF out.raised # "none" THEN I_d_values
    ELSE Append(I_d_values, Mul(out.value.I_d, Num(1000)))

----------------------------------------------------------------------------
(* Python values used by the evaluators.                                   *)

\* dict.get(key, default)
Get(dict, key, default) == IF key \in DOMAIN dict THEN dict[key] ELSE default

\* the dict d after d[key] = value
Put(dict, key, value) ==
    [k \in DOMAIN dict \cup {key} |-> IF k = key THEN value ELSE dict[k]]

EmptyDict == [k \in {} |-> 0]

\* max(x, y): the first of two equal arguments
PyMax(x, y) == IF Lt(x, y) THEN y ELSE x

\* the hundredths q (rest r of the division by d), rounded, ties to even
RoundEven(q, r, d) ==
    IF 2 * r > d \/ (2 * r = d /\ Limb(q, 1) % 2 = 1)
    THEN NatAdd(q, <<1>>) ELSE q

RoundQuot(qr, d) == RoundEven(qr[1], qr[2], d)

Hundredths(n, d) == RoundQuot(QuotRem(NatMul(n, <<100>>), d), d)

\* f"{x:.2f}" for x >= 0 with a short denominator: the hundredths it prints
Fmt2(x) == Hundredths(x.n, Limb(x.d, 1) + Base * Limb(x.d, 2))

\* what a call hands back: a return value, or the exception it raised
Returned(value) == [raised |-> "none", value |-> value]

Raised(exception) == [raised |-> exception, value |-> <<>>]

----------------------------------------------------------------------------
(* Bounds of the explored inputs.                                          *)

\* gate voltages 0, 1, ..., MaxVgs volts (and the default threshold 0.7 V)
MaxVgs == 3

\* drain voltages -NegVds, ..., MaxVds volts (and 2.3 V = 3 V - 0.7 V)
MaxVds == 5

NegVds == 2

----------------------------------------------------------------------------
(* Material table (MATERIAL_PROPERTIES): the numeric fields the physics    *)
(* core reads.                                                             *)

Silicon ==
    [electron_mobility_value |-> Num(1400), breakdown_field_value |-> Dec(3, -1),
     dielectric_constant |-> Dec(117, -1), saturation_velocity |-> Dec(1, 7)]

GalliumNitride ==
    [electron_mobility_value |-> Num(2000), breakdown_field_value |-> Dec(33, -1),
     dielectric_constant |-> Dec(90, -1), saturation_velocity |-> Dec(25, 6)]

SiliconCarbide ==
    [electron_mobility_value |-> Num(950), breakdown_field_value |-> Dec(28, -1),
     dielectric_constant |-> Dec(97, -1), saturation_velocity |-> Dec(20, 6)]

MATERIAL_PROPERTIES == {Silicon, GalliumNitride, SiliconCarbide}

----------------------------------------------------------------------------
(* Basic evaluator, modules/physics_engine.py.  The value is what the      *)
(* method returns (I_d, region) together with the two entries it stores in *)
(* self.explanations: the region, and the explanation text, of which the   *)
(* model keeps what varies (the branch and the printed V_ds_sat).          *)

\* the branch taken: if V_gs <= V_th / elif V_ds < V_ds_sat / else
operating_region(V_gs, V_ds, V_th, V_ds_sat) ==
    IF Le(V_gs, V_th) THEN "Cut-off"
    ELSE IF Lt(V_ds, V_ds_sat) THEN "Linear"
    ELSE "Saturation"

\* I_d of the Linear branch, L # 0
I_d_linear(mu_n_si, C_ox, W, L, V_gs, V_th, V_ds) ==
    Mul(Mul(Mul(mu_n_si, C_ox), Div(W, L)),
        Sub(Mul(Sub(V_gs, V_th), V_ds), Mul(Half, Sq(V_ds))))

\* I_d of the Saturation branch, L # 0
I_d_saturation(mu_n_si, C_ox, W, L, V_gs, V_th) ==
    Mul(Mul(Mul(Mul(Half, mu_n_si), C_ox), Div(W, L)), Sq(Sub(V_gs, V_th)))

calculate_drain_current(V_gs, V_ds, material, geometry) ==
    LET Branch(region, mu_n_si, C_ox, W, L, V_th, V_ds_sat) ==
            IF region = "Cut-off"
            THEN Returned([I_d |-> Num(0), region |-> region,
                           explanation |-> <<"Cut-off">>])
            ELSE IF IsZero(L) THEN Raised("ZeroDivisionError")
            ELSE IF region = "Linear"
            THEN Returned([I_d |-> I_d_linear(mu_n_si, C_ox, W, L,
                                              V_gs, V_th, V_ds),
                           region |-> region,
                           explanation |-> <<"Linear", Fmt2(V_ds_sat)>>])
            ELSE Returned([I_d |-> I_d_saturation(mu_n_si, C_ox, W, L,
                                                  V_gs, V_th),
                           region |-> region,
                           explanation |-> <<"Saturation", Fmt2(V_ds_sat)>>])
        Regions(mu_n_si, C_ox, W, L, V_th, V_ds_sat) ==
            Branch(operating_region(V_gs, V_ds, V_th, V_ds_sat),
                   mu_n_si, C_ox, W, L, V_th, V_ds_sat)
        Extract(mu_n, C_ox, W, L, V_th) ==
            Regions(Mul(mu_n, Dec(1, -4)), C_ox, W, L, V_th,
                    PyMax(Sub(V_gs, V_th), Num(0)))
    IN  Extract(Get(material, "electron_mobility_value", Num(1400)),
                Get(geometry, "C_ox", Dec(345, -5)),
                Get(geometry, "width", Dec(10, -6)),
                Get(geometry, "length", Dec(1, -6)),
                Get(geometry, "V_th", Dec(7, -1)))

----------------------------------------------------------------------------
(* Basic evaluator, the copy in app_enhanced.py.                           *)

\* the branch taken: if V_gs <= V_th / elif V_ds < V_ds_sat / else
app_operating_region(V_gs, V_ds, V_th, V_ds_sat) ==
    IF Le(V_gs, V_th) THEN "Cut-off"
    ELSE IF Lt(V_ds, V_ds_sat) THEN "Linear"
    ELSE "Saturation"

\* I_d of the Linear branch, L # 0
app_I_d_linear(mu_n_si, C_ox, W, L, V_gs, V_th, V_ds) ==
    Mul(Mul(Mul(mu_n_si, C_ox), Div(W, L)),
        Sub(Mul(Sub(V_gs, V_th), V_ds), Mul(Half, Sq(V_ds))))

\* I_d of the Saturation branch, L # 0
app_I_d_saturation(mu_n_si, C_ox, W, L, V_gs, V_th) ==
    Mul(Mul(Mul(Mul(Half, mu_n_si), C_ox), Div(W, L)), Sq(Sub(V_gs, V_th)))

app_calculate_drain_current(V_gs, V_ds, material, geometry) ==
    LET Branch(region, mu_n_si, C_ox, W, L, V_th, V_ds_sat) ==
            IF region = "Cut-off"
            THEN Returned([I_d |-> Num(0), region |-> region,
                           explanation |-> <<"Cut-off">>])
            ELSE IF IsZero(L) THEN Raised("ZeroDivisionError")
            ELSE IF region = "Linear"
            THEN Returned([I_d |-> app_I_d_linear(mu_n_si, C_ox, W, L,
                                              V_gs, V_th, V_ds),
                           region |-> region,
                           explanation |-> <<"Linear", Fmt2(V_ds_sat)>>])
            ELSE Returned([I_d |-> app_I_d_saturation(mu_n_si, C_ox, W, L,
                                                  V_gs, V_th),
                           region |-> region,
                           explanation |-> <<"Saturation", Fmt2(V_ds_sat)>>])
        Regions(mu_n_si, C_ox, W, L, V_th, V_ds_sat) ==
            Branch(app_operating_region(V_gs, V_ds, V_th, V_ds_sat),
                   mu_n_si, C_ox, W, L, V_th, V_ds_sat)
        Extract(mu_n, C_ox, W, L, V_th) ==
            Regions(Mul(mu_n, Dec(1, -4)), C_ox, W, L, V_th,
                    PyMax(Sub(V_gs, V_th), Num(0)))
    IN  Extract(Get(material, "electron_mobility_value", Num(1400)),
                Get(geometry, "C_ox", Dec(345, -5)),
                Get(geometry, "width", Dec(10, -6)),
                Get(geometry, "length", Dec(1, -6)),
                Get(geometry, "V_th", Dec(7, -1)))

\* self.explanations after a call of calculate_drain_current that handed back r
StoreExplanations(dict, r) ==
    IF r.raised # "none" THEN dict
    ELSE Put(Put(dict, "current_calculation", r.value.explanation),
             "operating_region", r.value.region)

----------------------------------------------------------------------------
(* Extended evaluator, modules/advanced_physics.py (velocity-saturation    *)
(* variant).                                                               *)

\* AdvancedMOSFETPhysics.__init__: self.epsilon_0 = 8.854e-12
epsilon_0 == Dec(8854, -15)

\* the default of the parameter temperature
temperature_default == 300

\* material['electron_mobility_value'] is present and T # 0
temperature_dependent_mobility(material, T) ==
    LET mu_300 == material["electron_mobility_value"]
    IN  Mul(mu_300, Sq(Div(Num(300), T)))

temperature_dependent_vth(V_th0, T) ==
    Sub(V_th0, Mul(Dec(2, -3), Sub(T, Num(300))))

\* L # 0
dibl_effect(V_th, V_ds, L) ==
    LET eta == Div(Dec(1, -1), Mul(L, Dec(1, 6)))
    IN  Sub(V_th, Mul(eta, V_ds))

\* L # 0
channel_length_modulation(L, V_ds) == Div(Dec(1, -1), Mul(L, Dec(1, 6)))

\* I_d of the Linear branch; L # 0, E_c * L # 0, 1 + V_ds / (E_c * L) # 0
short_channel_I_d_linear(mu_n, C_ox, W, L, V_gt, V_ds, EcL) ==
    Div(Mul(Div(Mul(Mul(mu_n, C_ox), W), L),
            Sub(Mul(V_gt, V_ds), Mul(Half, Sq(V_ds)))),
        Add(Num(1), Div(V_ds, EcL)))

\* I_d_sat of the Saturation branch; L # 0, E_c * L # 0, 1 + V_gt / (E_c * L) # 0
short_channel_I_d_sat(mu_n, C_ox, W, L, V_gt, EcL) ==
    Div(Mul(Div(Mul(Mul(Mul(Half, mu_n), C_ox), W), L), Sq(V_gt)),
        Add(Num(1), Div(V_gt, EcL)))

calculate_with_short_channel_effects(V_gs, V_ds, material, geometry, temperature) ==
    LET Result(I_d, region, V_th_sc, V_th0, factor) ==
            Returned([I_d |-> I_d, region |-> region,
                      effects |-> [effective_vth |-> V_th_sc,
                                   dibl_effect |-> Sub(V_th_sc, V_th0),
                                   velocity_saturation_factor |-> factor]])
        Conduction(mu_n, C_ox, W, L, V_th_sc, V_th0, lambda_clm, EcL,
                   V_gt, den_s, V_ds_sat, den_l) ==
            IF Lt(V_ds, V_ds_sat)
            THEN IF IsZero(den_l) THEN Raised("ZeroDivisionError")
                 ELSE Result(short_channel_I_d_linear(mu_n, C_ox, W, L, V_gt,
                                                      V_ds, EcL),
                             "Linear", V_th_sc, V_th0,
                             Div(V_ds_sat, Sub(V_gs, V_th_sc)))
            ELSE Result(Mul(short_channel_I_d_sat(mu_n, C_ox, W, L, V_gt, EcL),
                            Add(Num(1), Mul(lambda_clm, Sub(V_ds, V_ds_sat)))),
                        "Saturation", V_th_sc, V_th0,
                        Div(V_ds_sat, Sub(V_gs, V_th_sc)))
        Saturation(mu_n, C_ox, W, L, V_th_sc, V_th0, lambda_clm, EcL, V_gt, den_s) ==
            IF IsZero(den_s) THEN Raised("ZeroDivisionError")
            ELSE Conduction(mu_n, C_ox, W, L, V_th_sc, V_th0, lambda_clm, EcL,
                            V_gt, den_s, Div(V_gt, den_s),
                            Add(Num(1), Div(V_ds, EcL)))
        Current(mu_n, C_ox, W, L, V_th_sc, V_th0, lambda_clm, EcL) ==
            IF Le(V_gs, V_th_sc)
            THEN Result(Num(0), "Cut-off", V_th_sc, V_th0, Num(0))
            ELSE IF IsZero(EcL) THEN Raised("ZeroDivisionError")
            ELSE Saturation(mu_n, C_ox, W, L, V_th_sc, V_th0, lambda_clm, EcL,
                            Sub(V_gs, V_th_sc),
                            Add(Num(1), Div(Sub(V_gs, V_th_sc), EcL)))
        ShortChannel(L, W, t_ox, V_th0, mu_n, V_th) ==
            IF IsZero(L) \/ IsZero(t_ox) \/ IsZero(mu_n)
            THEN Raised("ZeroDivisionError")
            ELSE Current(mu_n,
                         Div(Mul(Get(material, "dielectric_constant", Dec(39, -1)),
                                 epsilon_0), t_ox),
                         W, L,
                         dibl_effect(V_th, V_ds, L), V_th0,
                         channel_length_modulation(L, V_ds),
                         Mul(Div(Mul(Get(material, "saturation_velocity", Dec(1, 7)),
                                     Dec(1, -2)), mu_n), L))
        Temperature(L, W, t_ox, V_th0, T) ==
            IF "electron_mobility_value" \notin DOMAIN material
            THEN Raised("KeyError")
            ELSE IF IsZero(T) THEN Raised("ZeroDivisionError")
            ELSE ShortChannel(L, W, t_ox, V_th0,
                              temperature_dependent_mobility(material, T),
                              temperature_dependent_vth(V_th0, T))
    IN  IF "length" \notin DOMAIN geometry \/ "width" \notin DOMAIN geometry
        THEN Raised("KeyError")
        ELSE Temperature(geometry["length"], geometry["width"],
                         Get(geometry, "oxide_thickness", Dec(2, -9)),
                         Get(geometry, "V_th", Dec(7, -1)),
                         Add(temperature, Dec(27315, -2)))

----------------------------------------------------------------------------
(* Extended evaluator, the copy in app_enhanced.py (simple variant).       *)

\* AdvancedMOSFETPhysics.__init__: self.epsilon_0 = 8.854e-12
app_epsilon_0 == Dec(8854, -15)

\* the default of the parameter temperature
app_temperature_default == 300

app_temperature_dependent_mobility(material, T) ==
    LET mu_300 == material["electron_mobility_value"]
    IN  Mul(mu_300, Sq(Div(Num(300), T)))

app_temperature_dependent_vth(V_th0, T) ==
    Sub(V_th0, Mul(Dec(2, -3), Sub(T, Num(300))))

app_dibl_effect(V_th, V_ds, L) ==
    LET eta == Div(Dec(1, -1), Mul(L, Dec(1, 6)))
    IN  Sub(V_th, Mul(eta, V_ds))

app_channel_length_modulation(L, V_ds) == Div(Dec(1, -1), Mul(L, Dec(1, 6)))

\* I_d of the Linear branch, L # 0
app_short_channel_I_d_linear(mu_n, C_ox, W, L, V_gs, V_th_sc, V_ds) ==
    Mul(Mul(Mul(mu_n, C_ox), Div(W, L)),
        Sub(Mul(Sub(V_gs, V_th_sc), V_ds), Mul(Half, Sq(V_ds))))

\* I_d_sat of the Saturation branch, L # 0
app_short_channel_I_d_sat(mu_n, C_ox, W, L, V_gs, V_th_sc) ==
    Mul(Mul(Mul(Mul(Half, mu_n), C_ox), Div(W, L)), Sq(Sub(V_gs, V_th_sc)))

app_calculate_with_short_channel_effects(V_gs, V_ds, material, geometry, temperature) ==
    LET Result(I_d, region, V_th_sc, V_th0) ==
            Returned([I_d |-> I_d, region |-> region,
                      effects |-> [effective_vth |-> V_th_sc,
                                   dibl_effect |-> Sub(V_th_sc, V_th0),
                                   velocity_saturation_factor |-> Dec(8, -1)]])
        Conduction(mu_n, C_ox, W, L, V_th_sc, V_th0, lambda_clm, V_gt, V_ds_sat) ==
            IF Lt(V_ds, V_ds_sat)
            THEN Result(app_short_channel_I_d_linear(mu_n, C_ox, W, L, V_gs,
                                                     V_th_sc, V_ds),
                        "Linear", V_th_sc, V_th0)
            ELSE Result(Mul(app_short_channel_I_d_sat(mu_n, C_ox, W, L, V_gs,
                                                      V_th_sc),
                            Add(Num(1), Mul(lambda_clm, Sub(V_ds, V_ds_sat)))),
                        "Saturation", V_th_sc, V_th0)
        Current(mu_n, C_ox, W, L, V_th_sc, V_th0, lambda_clm) ==
            IF Le(V_gs, V_th_sc)
            THEN Result(Num(0), "Cut-off", V_th_sc, V_th0)
            ELSE Conduction(mu_n, C_ox, W, L, V_th_sc, V_th0, lambda_clm,
                            Sub(V_gs, V_th_sc), Sub(V_gs, V_th_sc))
        ShortChannel(L, W, t_ox, V_th0, mu_n, V_th) ==
            IF IsZero(L) \/ IsZero(t_ox) THEN Raised("ZeroDivisionError")
            ELSE Current(mu_n,
                         Div(Mul(Get(material, "dielectric_constant", Dec(39, -1)),
                                 app_epsilon_0), t_ox),
                         W, L,
                         app_dibl_effect(V_th, V_ds, L), V_th0,
                         app_channel_length_modulation(L, V_ds))
        Temperature(L, W, t_ox, V_th0, T) ==
            IF "electron_mobility_value" \notin DOMAIN material
            THEN Raised("KeyError")
            ELSE IF IsZero(T) THEN Raised("ZeroDivisionError")
            ELSE ShortChannel(L, W, t_ox, V_th0,
                              app_temperature_dependent_mobility(material, T),
                              app_temperature_dependent_vth(V_th0, T))
    IN  IF "length" \notin DOMAIN geometry \/ "width" \notin DOMAIN geometry
        THEN Raised("KeyError")
        ELSE Temperature(geometry["length"], geometry["width"],
                         Get(geometry, "oxide_thickness", Dec(2, -9)),
                         Get(geometry, "V_th", Dec(7, -1)),
                         Add(temperature, Dec(27315, -2)))

----------------------------------------------------------------------------
(* Auxiliary estimates: MOSFETPhysics.calculate_breakdown_voltage          *)
(* (modules/physics_engine.py) and AdvancedMOSFETPhysics.                  *)
(* calculate_quantum_effects (modules/advanced_physics.py and the copy in  *)
(* app_enhanced.py).                                                       *)

\* the tenths q (rest r of the division by d) of a short fraction, rounded
Tenths(n, d) == RoundQuot(QuotRem(NatMul(n, <<10>>), d), d)

\* f"{x:.1f}" for x with a short denominator: the sign and the tenths printed
Fmt1(x) == <<x.neg, Tenths(x.n, Limb(x.d, 1) + Base * Limb(x.d, 2))>>

\* E_br * thickness * 1e-4 with E_br = breakdown_field_value * 1e6
breakdown_voltage(breakdown_field_value, thickness) ==
    Mul(Mul(Mul(breakdown_field_value, Dec(1, 6)), thickness), Dec(1, -4))

\* the value returned; the text stored under 'breakdown' is kept as what
\* varies in it: the field printed and the voltage printed
calculate_breakdown_voltage(material, thickness) ==
    Returned([V_br |-> breakdown_voltage(
                           Get(material, "breakdown_field_value", Dec(3, -1)),
                           thickness),
              explanation |->
                  <<Get(material, "breakdown_field_value", Dec(3, -1)),
                    Fmt1(breakdown_voltage(
                             Get(material, "breakdown_field_value", Dec(3, -1)),
                             thickness))>>])

\* A faulty variant of the store below, used by nothing: the explanations
\* are started afresh for the breakdown text.
StoreBreakdownAfresh(dict, r) == Put(EmptyDict, "breakdown", r.value.explanation)

\* self.explanations['breakdown'] = explanation
StoreBreakdown(dict, r) == Put(dict, "breakdown", r.value.explanation)

\* A tunneling probability is coef * exp(k * k_times), where k is the
\* positive constant np.sqrt(2 * m_eff * phi_b * self.q) / (1.054e-34).
Number(x) == [coef |-> x, k_times |-> Num(0)]

\* np.exp(-2 * k * t_ox)
wkb_transmission(t_ox) == [coef |-> Num(1), k_times |-> Mul(Num(-2), t_ox)]

\* if E_field > 0: T_qm = np.exp(-2 * k * t_ox) / else: T_qm = 0
tunneling_probability(t_ox, E_field) ==
    IF Lt(Num(0), E_field) THEN wkb_transmission(t_ox) ELSE Number(Num(0))

\* dielectric_constant * self.epsilon_0 / (t_ox + 0.3e-9), for a divisor # 0
quantum_capacitance(dielectric_constant, eps_0, divisor) ==
    Div(Mul(dielectric_constant, eps_0), divisor)

calculate_quantum_effects(material, t_ox, E_field) ==
    IF IsZero(Add(t_ox, Dec(3, -10))) THEN Raised("ZeroDivisionError")
    ELSE Returned([tunneling_probability |->
                       tunneling_probability(t_ox, E_field),
                   quantum_capacitance |->
                       quantum_capacitance(
                           Get(material, "dielectric_constant", Dec(39, -1)),
                           epsilon_0, Add(t_ox, Dec(3, -10)))])

\* 1e-6 if t_ox < 3e-9 else 1e-9
app_tunneling_probability(t_ox, E_field) ==
    IF Lt(t_ox, Dec(3, -9)) THEN Number(Dec(1, -6)) ELSE Number(Dec(1, -9))

app_quantum_capacitance(dielectric_constant, eps_0, divisor) ==
    Div(Mul(dielectric_constant, eps_0), divisor)

app_calculate_quantum_effects(material, t_ox, E_field) ==
    IF IsZero(Add(t_ox, Dec(3, -10))) THEN Raised("ZeroDivisionError")
    ELSE Returned([tunneling_probability |->
                       app_tunneling_probability(t_ox, E_field),
                   quantum_capacitance |->
                       app_quantum_capacitance(
                           Get(material, "dielectric_constant", Dec(39, -1)),
                           app_epsilon_0, Add(t_ox, Dec(3, -10)))])

----------------------------------------------------------------------------

(* I-V chart: VisualizationEngine.create_iv_characteristics                *)
(* (modules/visualization_engine.py, and the copy in app_enhanced.py).     *)

\* V_gs_values = [2, 3, 4, 5]
V_gs_values == <<Num(2), Num(3), Num(4), Num(5)>>

\* the number of samples of V_ds_range = np.linspace(0, 10, 50)
Samples == 50

\* the i-th sample of np.linspace(0, 10, 50), i = 1 .. Samples
V_ds_range(i) == Frac(10 * (i - 1), Samples - 1)

\* try: I_d_values.append(I_d * 1000) / except: I_d_values.append(0)
append_sample(I_d_values, out) ==
    IF out.raised # "none" THEN Append(I_d_values, Num(0))
    ELSE Append(I_d_values, Mul(out.value.I_d, Num(1000)))

\* fig.add_trace(go.Scatter(x=V_ds_range, y=I_d_values,
\* name=f"{material_name} V_gs={V_gs}V", ...))
add_trace(traces, material_name, V_gs, I_d_values) ==
    Append(traces, [name |-> <<material_name, V_gs>>, y |-> I_d_values])

----------------------------------------------------------------------------

(* Layer builder: MOSFETBuilder (modules/mosfet_builder.py, and the copy   *)
(* in app_enhanced.py).                                                    *)

\* __init__: self.layers = [], self.layer_properties = {}
MOSFETBuilder == [layers |-> <<>>, layer_properties |-> EmptyDict]

\* _generate_layer_explanation(layer): the text chosen by the layer's type,
\* kept as what the layer puts into it: the material (the table values
\* printed follow from it), the thickness where the text prints it, and the
\* doping that the source/drain text looks up in the layer's properties
generate_layer_explanation(layer) ==
    IF layer.type \in {"gate_metal", "gate_oxide"}
    THEN <<layer.type, layer.material, layer.thickness>>
    ELSE IF layer.type \in {"channel", "substrate"}
    THEN <<layer.type, layer.material>>
    ELSE IF layer.type = "source_drain"
    THEN <<layer.type, layer.material, Get(layer.properties, "doping", "N/A")>>
    ELSE <<"Layer explanation not available.">>

\* add_layer keeping the explanation a type already has
add_layer_first_wins(self, layer) ==
    [layers |-> Append(self.layers, layer),
     layer_properties |->
         IF layer.type \in DOMAIN self.layer_properties
         THEN self.layer_properties
         ELSE Put(self.layer_properties, layer.type,
                  generate_layer_explanation(layer))]

\* add_layer(layer_type, material, thickness, properties), given the layer
\* dictionary it builds from its arguments
add_layer(self, layer) ==
    [layers |-> Append(self.layers, layer),
     layer_properties |-> Put(self.layer_properties, layer.type,
                              generate_layer_explanation(layer))]

----------------------------------------------------------------------------

(* State.                                                                  *)

VARIABLES
    args,              \* the arguments the caller passes: V_gs, V_ds, the
                       \* material and geometry dictionaries, the temperature
                       \* (<<>> when the caller leaves it out)
    ret,               \* the last call: which method, and what it handed back
    explanations,      \* MOSFETPhysics.explanations, modules/physics_engine.py
    app_explanations,  \* MOSFETPhysics.explanations, app_enhanced.py
    callers,           \* the calls in progress of callers that share one
                       \* MOSFETPhysics object: each one's arguments, position
                       \* and local result (<<>> when calls do not overlap)
    sweep,             \* the locals of create_iv_characteristics while it
                       \* runs: loop position, I_d_values, the figure's traces
                       \* (<<>> when no chart is being drawn)
    builder            \* the MOSFETBuilder kept in st.session_state: layers
                       \* and layer_properties

vars == <<args, ret, explanations, app_explanations, callers, sweep, builder>>

NoCall == [fn |-> "none", out |-> Raised("none")]

VgsValues == {Num(k) : k \in 0..MaxVgs} \cup {Dec(7, -1)}

VdsValues == {Num(k) : k \in (-NegVds)..MaxVds} \cup {Dec(23, -1)}

\* the material argument: a table entry, or a dictionary without the fields
BasicMaterials == {EmptyDict, GalliumNitride, SiliconCarbide}

\* show_simulator's geometry for the slider values gate_length, gate_width (um)
SimulatorGeometry(gate_length, gate_width) ==
    [length |-> Mul(gate_length, Dec(1, -6)), width |-> Mul(gate_width, Dec(1, -6)),
     C_ox |-> Dec(345, -5), V_th |-> Dec(7, -1)]

\* the geometry argument: the dashboard's, and dictionaries with fields missing
BasicGeometries ==
    {EmptyDict,
     SimulatorGeometry(Num(1), Num(10)),
     SimulatorGeometry(Dec(1, -1), Num(100)),
     [V_th |-> Num(1)],
     [width |-> Dec(3, -5)],
     [length |-> Dec(2, -6)],
     [C_ox |-> Dec(1, -2)],
     [length |-> Num(0), V_th |-> Num(1)]}

BasicInputs ==
    [V_gs : VgsValues, V_ds : VdsValues, material : BasicMaterials,
     geometry : BasicGeometries, temperature : {<<>>}]

InitBasic ==
    /\ args \in BasicInputs
    /\ ret = NoCall
    /\ explanations = EmptyDict
    /\ app_explanations = EmptyDict
    /\ builder = MOSFETBuilder
    /\ callers = <<>>
    /\ sweep = <<>>

\* A faulty variant of the call below, used by nothing: an object that has
\* served a Cut-off call answers from what it stored instead of evaluating.
CallBasicRemembering ==
    /\ ret' = [fn |-> "calculate_drain_current",
               out |-> IF Get(explanations, "operating_region", "") = "Cut-off"
                       THEN Returned([I_d |-> Num(0), region |-> "Cut-off",
                                      explanation |-> <<"Cut-off">>])
                       ELSE calculate_drain_current(args.V_gs, args.V_ds,
                                                    args.material,
                                                    args.geometry)]
    /\ explanations' = StoreExplanations(explanations, ret'.out)
    /\ UNCHANGED <<args, app_explanations, callers, sweep, builder>>

\* physics.calculate_drain_current(V_gs, V_ds, material, geometry), module copy
CallBasic ==
    /\ ret' = [fn |-> "calculate_drain_current",
               out |-> calculate_drain_current(args.V_gs, args.V_ds,
                                               args.material, args.geometry)]
    /\ explanations' = StoreExplanations(explanations, ret'.out)
    /\ UNCHANGED <<args, app_explanations, callers, sweep, builder>>

\* the same call on app_enhanced.py's MOSFETPhysics
CallBasicApp ==
    /\ ret' = [fn |-> "app_calculate_drain_current",
               out |-> app_calculate_drain_current(args.V_gs, args.V_ds,
                                                   args.material, args.geometry)]
    /\ app_explanations' = StoreExplanations(app_explanations, ret'.out)
    /\ UNCHANGED <<args, explanations, callers, sweep, builder>>

NextBasic == CallBasic \/ CallBasicApp

SpecBasic == InitBasic /\ [][NextBasic]_vars

----------------------------------------------------------------------------
(* Calls of the extended evaluator.                                        *)

\* show_advanced_physics' geometry for the slider values gate_length and
\* oxide_thickness (nm)
AdvancedGeometry(gate_length, oxide_thickness) ==
    [length |-> Mul(gate_length, Dec(1, -9)), width |-> Dec(1, -6),
     oxide_thickness |-> Mul(oxide_thickness, Dec(1, -9)), V_th |-> Dec(7, -1)]

ExtGeometries ==
    {AdvancedGeometry(Num(100), Num(2)),
     AdvancedGeometry(Num(1000), Num(2)),
     [length |-> Dec(5, -8), width |-> Dec(10, -6)]}

\* the temperature argument in Celsius; <<>> when the caller leaves it out
ExtTemperatures == {<<>>, <<Num(27)>>, <<Dec(2685, -2)>>}

\* the material argument: entries of the table
ExtMaterials == {Silicon, GalliumNitride}

ExtInputs ==
    [V_gs : VgsValues, V_ds : VdsValues, material : ExtMaterials,
     geometry : ExtGeometries, temperature : ExtTemperatures]

InitExt ==
    /\ args \in ExtInputs
    /\ ret = NoCall
    /\ explanations = EmptyDict
    /\ app_explanations = EmptyDict
    /\ builder = MOSFETBuilder
    /\ callers = <<>>
    /\ sweep = <<>>

\* physics.calculate_with_short_channel_effects(V_gs, V_ds, material, geometry
\* [, temperature]), modules/advanced_physics.py
CallExtended ==
    /\ ret' = [fn |-> "calculate_with_short_channel_effects",
               out |-> calculate_with_short_channel_effects(
                           args.V_gs, args.V_ds, args.material, args.geometry,
                           IF args.temperature = <<>>
                           THEN Num(temperature_default)
                           ELSE args.temperature[1])]
    /\ UNCHANGED <<args, explanations, app_explanations, callers, sweep, builder>>

\* the same call on app_enhanced.py's AdvancedMOSFETPhysics
CallExtendedApp ==
    /\ ret' = [fn |-> "app_calculate_with_short_channel_effects",
               out |-> app_calculate_with_short_channel_effects(
                           args.V_gs, args.V_ds, args.material, args.geometry,
                           IF args.temperature = <<>>
                           THEN Num(app_temperature_default)
                           ELSE args.temperature[1])]
    /\ UNCHANGED <<args, explanations, app_explanations, callers, sweep, builder>>

NextExt == CallExtended \/ CallExtendedApp

SpecExt == InitExt /\ [][NextExt]_vars

Init == InitBasic \/ InitExt

Next == CallBasic \/ CallBasicApp \/ CallExtended \/ CallExtendedApp

Spec == Init /\ [][Next]_vars

----------------------------------------------------------------------------
(* Calls at the edges of the domain: arguments the dashboard's sliders do   *)
(* not offer but the evaluators accept (any number is a voltage or a       *)
(* temperature).                                                           *)

\* absolute zero in Celsius, and 26.85 C = 300 K
EdgeTemperatures == {<<>>, <<Dec(-27315, -2)>>, <<Dec(2685, -2)>>}

\* among them -1/14000 V, which is -E_c*L for silicon at 300 K and L = 1 um
\* as the velocity-saturation variant computes E_c
EdgeVds == {Frac(-1, 14000), Num(-1), Num(1)}

EdgeVgs == {Num(0), Num(3)}

EdgeGeometries ==
    {AdvancedGeometry(Num(1000), Num(2)), AdvancedGeometry(Num(100), Num(2))}

EdgeInputs ==
    [V_gs : EdgeVgs, V_ds : EdgeVds, material : ExtMaterials,
     geometry : EdgeGeometries, temperature : EdgeTemperatures]

InitEdge ==
    /\ args \in EdgeInputs
    /\ ret = NoCall
    /\ explanations = EmptyDict
    /\ app_explanations = EmptyDict
    /\ builder = MOSFETBuilder
    /\ callers = <<>>
    /\ sweep = <<>>

SpecEdge == InitEdge /\ [][Next]_vars

----------------------------------------------------------------------------
(* Calls of the auxiliary estimates.  Any number is a thickness: the       *)
(* methods do not check their arguments.                                   *)

\* the thickness argument of calculate_breakdown_voltage, in micrometres
BreakdownThickness == {Num(-5), Num(0), Dec(1, -1), Num(2)}

\* the t_ox argument of calculate_quantum_effects, in metres: the dashboard's
\* 1 nm .. 3 nm, and values no slider offers
OxideThickness ==
    {Dec(-3, -10), Dec(-2, -9), Num(0), Dec(1, -9), Dec(2, -9), Dec(3, -9)}

\* the E_field argument
FieldValues == {Dec(-1, 9), Num(0), Dec(15, 8)}

AuxMaterials == {EmptyDict, Silicon, GalliumNitride}

AuxInputs ==
    [material : AuxMaterials, thickness : BreakdownThickness,
     t_ox : OxideThickness, E_field : FieldValues]

InitAux ==
    /\ args \in AuxInputs
    /\ ret = NoCall
    /\ explanations = EmptyDict
    /\ app_explanations = EmptyDict
    /\ builder = MOSFETBuilder
    /\ callers = <<>>
    /\ sweep = <<>>

\* physics.calculate_breakdown_voltage(material, thickness)
CallBreakdown ==
    /\ ret' = [fn |-> "calculate_breakdown_voltage",
               out |-> calculate_breakdown_voltage(args.material,
                                                   args.thickness)]
    /\ explanations' = StoreBreakdown(explanations, ret'.out)
    /\ UNCHANGED <<args, app_explanations, callers, sweep, builder>>

\* physics.calculate_quantum_effects(material, t_ox, E_field),
\* modules/advanced_physics.py
CallQuantum ==
    /\ ret' = [fn |-> "calculate_quantum_effects",
               out |-> calculate_quantum_effects(args.material, args.t_ox,
                                                 args.E_field)]
    /\ UNCHANGED <<args, explanations, app_explanations, callers, sweep, builder>>

\* the same call on app_enhanced.py's AdvancedMOSFETPhysics
CallQuantumApp ==
    /\ ret' = [fn |-> "app_calculate_quantum_effects",
               out |-> app_calculate_quantum_effects(args.material, args.t_ox,
                                                     args.E_field)]
    /\ UNCHANGED <<args, explanations, app_explanations, callers, sweep, builder>>

NextAux == CallBreakdown \/ CallQuantum \/ CallQuantumApp

SpecAux == InitAux /\ [][NextAux]_vars

----------------------------------------------------------------------------

(* Sequences of calls: a caller picks the arguments of its next call and   *)
(* invokes any of the methods, on objects that have served earlier calls.  *)

SeqVgs == {Num(0), Num(3)}

SeqVds == {Num(1), Num(5)}

SeqInputs ==
    [V_gs : SeqVgs, V_ds : SeqVds, material : ExtMaterials,
     geometry : {AdvancedGeometry(Num(1000), Num(2))},
     temperature : {<<Num(27)>>}, thickness : {Dec(1, -1)},
     t_ox : {Dec(2, -9)}, E_field : {Dec(15, 8)}]

InitSeq ==
    /\ args \in SeqInputs
    /\ ret = NoCall
    /\ explanations = EmptyDict
    /\ app_explanations = EmptyDict
    /\ builder = MOSFETBuilder
    /\ callers = <<>>
    /\ sweep = <<>>

\* the caller prepares the arguments of its next call; the objects stay
Arguments ==
    /\ args' \in SeqInputs
    /\ ret' = NoCall
    /\ UNCHANGED <<explanations, app_explanations, callers, sweep, builder>>

NextSeq ==
    \/ Arguments
    \/ CallBasic
    \/ CallBasicApp
    \/ CallExtended
    \/ CallExtendedApp
    \/ CallBreakdown
    \/ CallQuantum
    \/ CallQuantumApp

SpecSeq == InitSeq /\ [][NextSeq]_vars

----------------------------------------------------------------------------

(* Overlapping calls: two callers inside calculate_drain_current of one     *)
(* MOSFETPhysics object (modules/physics_engine.py).  Python switches      *)
(* between threads only between statements' bytecodes: a caller's          *)
(* computation of its locals (l.17-66) touches nothing shared and is one   *)
(* step; each of the two stores into self.explanations is a step.          *)

Callers == {"A", "B"}

SharedGeometries ==
    {SimulatorGeometry(Num(1), Num(10)), [length |-> Num(0), V_th |-> Num(1)]}

SharedInputs ==
    [V_gs : SeqVgs, V_ds : SeqVds, material : {Silicon},
     geometry : SharedGeometries]

\* a caller that has entered the method with the arguments a
Entered(a) == [pc |-> "called", args |-> a, local |-> Raised("none")]

InitShared ==
    /\ callers \in [Callers -> {Entered(a) : a \in SharedInputs}]
    /\ args = <<>>
    /\ ret = NoCall
    /\ explanations = EmptyDict
    /\ app_explanations = EmptyDict
    /\ builder = MOSFETBuilder
    /\ sweep = <<>>

\* where a caller stands once its locals are computed: an exception leaves
\* the method, a result goes on to the stores
AfterEvaluation(out) ==
    IF out.raised # "none" THEN "raised" ELSE "store_calculation"

\* l.17-66: the locals I_d, region and explanation
Evaluate(c) ==
    /\ callers[c].pc = "called"
    /\ callers' =
           [callers EXCEPT
               ![c].local = calculate_drain_current(
                                callers[c].args.V_gs, callers[c].args.V_ds,
                                callers[c].args.material,
                                callers[c].args.geometry),
               ![c].pc = AfterEvaluation(
                             calculate_drain_current(
                                 callers[c].args.V_gs, callers[c].args.V_ds,
                                 callers[c].args.material,
                                 callers[c].args.geometry))]
    /\ UNCHANGED <<args, ret, explanations, app_explanations, sweep, builder>>

\* l.67: self.explanations['current_calculation'] = explanation
StoreCalculation(c) ==
    /\ callers[c].pc = "store_calculation"
    /\ explanations' = Put(explanations, "current_calculation",
                           callers[c].local.value.explanation)
    /\ callers' = [callers EXCEPT ![c].pc = "store_region"]
    /\ UNCHANGED <<args, ret, app_explanations, sweep, builder>>

\* l.68 and l.70: self.explanations['operating_region'] = region;
\* return I_d, region
StoreRegion(c) ==
    /\ callers[c].pc = "store_region"
    /\ explanations' = Put(explanations, "operating_region",
                           callers[c].local.value.region)
    /\ callers' = [callers EXCEPT ![c].pc = "returned"]
    /\ UNCHANGED <<args, ret, app_explanations, sweep, builder>>

NextShared ==
    \E c \in Callers : Evaluate(c) \/ StoreCalculation(c) \/ StoreRegion(c)

SpecShared == InitShared /\ [][NextShared]_vars

----------------------------------------------------------------------------

(* Drawing the I-V chart.  The three nested loops of                       *)
(* create_iv_characteristics, one evaluator call per step: sweep.m and     *)
(* sweep.g are the positions of the loops over materials_data.items() and  *)
(* V_gs_values, sweep.i is the number of V_ds samples consumed.            *)

\* materials_data.items(), in the order of insertion
SweepMaterials ==
    {<<<<"Silicon (Si)", Silicon>>>>,
     <<<<"Gallium Nitride (GaN)", GalliumNitride>>,
       <<"Silicon (Si)", Silicon>>>>}

\* the dashboard's geometry, and one with L = 0, whose conducting calls
\* (V_gs = 3, 4, 5 for V_th = 2.5) raise
SweepGeometries ==
    {SimulatorGeometry(Num(1), Num(10)),
     [length |-> Num(0), V_th |-> Dec(25, -1)]}

SweepInputs == [materials_data : SweepMaterials, geometry : SweepGeometries]

\* the locals at the entry of the loops, for the copy fn of the method
SweepEntry(fn) ==
    [fn |-> fn, m |-> 1, g |-> 1, i |-> 0, I_d_values |-> <<>>,
     traces |-> <<>>]

InitSweep ==
    /\ args \in SweepInputs
    /\ ret = NoCall
    /\ explanations = EmptyDict
    /\ app_explanations = EmptyDict
    /\ builder = MOSFETBuilder
    /\ callers = <<>>
    /\ sweep \in {SweepEntry("create_iv_characteristics"),
                  SweepEntry("app_create_iv_characteristics")}

\* one pass of the innermost loop, modules/visualization_engine.py: the
\* call on the method's own MOSFETPhysics object, and the append
SweepSample ==
    /\ sweep.fn = "create_iv_characteristics"
    /\ sweep.m <= Len(args.materials_data)
    /\ sweep.i < Samples
    /\ explanations' =
           StoreExplanations(
               explanations,
               calculate_drain_current(
                   V_gs_values[sweep.g], V_ds_range(sweep.i + 1),
                   args.materials_data[sweep.m][2], args.geometry))
    /\ sweep' =
           [sweep EXCEPT
               !.i = @ + 1,
               !.I_d_values =
                   append_sample(
                       @, calculate_drain_current(
                              V_gs_values[sweep.g], V_ds_range(sweep.i + 1),
                              args.materials_data[sweep.m][2],
                              args.geometry))]
    /\ UNCHANGED <<args, ret, app_explanations, callers, builder>>

\* the same pass in app_enhanced.py
AppSweepSample ==
    /\ sweep.fn = "app_create_iv_characteristics"
    /\ sweep.m <= Len(args.materials_data)
    /\ sweep.i < Samples
    /\ app_explanations' =
           StoreExplanations(
               app_explanations,
               app_calculate_drain_current(
                   V_gs_values[sweep.g], V_ds_range(sweep.i + 1),
                   args.materials_data[sweep.m][2], args.geometry))
    /\ sweep' =
           [sweep EXCEPT
               !.i = @ + 1,
               !.I_d_values =
                   append_sample(
                       @, app_calculate_drain_current(
                              V_gs_values[sweep.g], V_ds_range(sweep.i + 1),
                              args.materials_data[sweep.m][2],
                              args.geometry))]
    /\ UNCHANGED <<args, ret, explanations, callers, builder>>

\* the innermost loop is exhausted: fig.add_trace(...), and the next V_gs
\* (with I_d_values = []) or the next material; the same in both copies
SweepAddTrace ==
    /\ sweep.m <= Len(args.materials_data)
    /\ sweep.i = Samples
    /\ sweep' =
           [sweep EXCEPT
               !.traces = add_trace(@, args.materials_data[sweep.m][1],
                                    V_gs_values[sweep.g], sweep.I_d_values),
               !.I_d_values = <<>>,
               !.i = 0,
               !.g = IF @ = Len(V_gs_values) THEN 1 ELSE @ + 1,
               !.m = IF sweep.g = Len(V_gs_values) THEN @ + 1 ELSE @]
    /\ UNCHANGED <<args, ret, explanations, app_explanations, callers, builder>>

NextSweep == SweepSample \/ AppSweepSample \/ SweepAddTrace

SpecSweep == InitSweep /\ [][NextSweep]_vars

----------------------------------------------------------------------------

(* The dashboard's pages (app_enhanced.py).  A page reads its widgets,     *)
(* builds the geometry and calls the evaluators inside a try whose except  *)
(* branch shows st.error.  args holds the widget values; of each slider    *)
(* the model takes the minimum, the default and the maximum.               *)

\* a faulty variant of the slider below, used by nothing: a minimum of 0.0
AdvOxideSliderFromZero == {Num(0), Num(2), Num(10)}

\* st.slider("Oxide Thickness (nm)", 0.5, 10.0, 2.0, 0.1)
AdvOxideSlider == {Dec(5, -1), Num(2), Num(10)}

\* the widgets of show_simulator: V_gs 0.0 .. 10.0, V_ds 0.0 .. 20.0,
\* gate_length 0.1 .. 10.0 um, gate_width 1.0 .. 100.0 um
SimulatorWidgets ==
    [page : {"Basic Simulator"},
     V_gs : {Num(0), Num(3), Num(10)},
     V_ds : {Num(0), Num(5), Num(20)},
     material : MATERIAL_PROPERTIES,
     gate_length : {Dec(1, -1), Num(1), Num(10)},
     gate_width : {Num(1), Num(10), Num(100)}]

\* the widgets of show_advanced_physics: V_gs 0.0 .. 5.0, V_ds 0.0 .. 10.0,
\* gate_length 10 .. 1000 nm, temperature -55 .. 200 C
AdvancedWidgets ==
    [page : {"Advanced Physics"},
     V_gs : {Num(0), Dec(15, -1), Num(5)},
     V_ds : {Num(0), Num(2), Num(10)},
     material : MATERIAL_PROPERTIES,
     gate_length : {Num(10), Num(100), Num(1000)},
     oxide_thickness : AdvOxideSlider,
     temperature : {Num(-55), Num(25), Num(200)}]

\* what a page ends with: the results it displays, or st.error(...) for the
\* exception caught
Displayed(results) == [st_error |-> "none", results |-> results]

ErrorShown(exception) == [st_error |-> exception, results |-> <<>>]

\* the body of show_simulator's try: the evaluator call on a new
\* MOSFETPhysics object, and the metrics, of which the current density
\* divides by gate_width
show_simulator(V_gs, V_ds, material, gate_length, gate_width) ==
    IF app_calculate_drain_current(
           V_gs, V_ds, material,
           SimulatorGeometry(gate_length, gate_width)).raised # "none"
    THEN ErrorShown(app_calculate_drain_current(
                        V_gs, V_ds, material,
                        SimulatorGeometry(gate_length, gate_width)).raised)
    ELSE IF IsZero(gate_width) THEN ErrorShown("ZeroDivisionError")
    ELSE Displayed(<<app_calculate_drain_current(
                         V_gs, V_ds, material,
                         SimulatorGeometry(gate_length, gate_width))>>)

\* physics.calculate_quantum_effects(material, geometry['oxide_thickness'],
\* V_gs/geometry['oxide_thickness'])
quantum_effects_shown(V_gs, material, geometry) ==
    IF IsZero(geometry.oxide_thickness) THEN Raised("ZeroDivisionError")
    ELSE app_calculate_quantum_effects(
             material, geometry.oxide_thickness,
             Div(V_gs, geometry.oxide_thickness))

\* the body of show_advanced_physics' try: the evaluator call (temperature
\* passed as the slider gives it), then the quantum estimate
show_advanced_physics(V_gs, V_ds, material, geometry, temperature) ==
    IF app_calculate_with_short_channel_effects(
           V_gs, V_ds, material, geometry, temperature).raised # "none"
    THEN ErrorShown(app_calculate_with_short_channel_effects(
                        V_gs, V_ds, material, geometry, temperature).raised)
    ELSE IF quantum_effects_shown(V_gs, material, geometry).raised # "none"
    THEN ErrorShown(quantum_effects_shown(V_gs, material, geometry).raised)
    ELSE Displayed(<<app_calculate_with_short_channel_effects(
                         V_gs, V_ds, material, geometry, temperature),
                     quantum_effects_shown(V_gs, material, geometry)>>)

InitDash ==
    /\ args \in SimulatorWidgets \cup AdvancedWidgets
    /\ ret = NoCall
    /\ explanations = EmptyDict
    /\ app_explanations = EmptyDict
    /\ builder = MOSFETBuilder
    /\ callers = <<>>
    /\ sweep = <<>>

\* a run of show_simulator with the widget values
ShowSimulator ==
    /\ args.page = "Basic Simulator"
    /\ ret' = [fn |-> "show_simulator",
               out |-> show_simulator(args.V_gs, args.V_ds, args.material,
                                      args.gate_length, args.gate_width)]
    /\ UNCHANGED <<args, explanations, app_explanations, callers, sweep, builder>>

\* a run of show_advanced_physics with the widget values
ShowAdvancedPhysics ==
    /\ args.page = "Advanced Physics"
    /\ ret' = [fn |-> "show_advanced_physics",
               out |-> show_advanced_physics(
                           args.V_gs, args.V_ds, args.material,
                           AdvancedGeometry(args.gate_length,
                                            args.oxide_thickness),
                           args.temperature)]
    /\ UNCHANGED <<args, explanations, app_explanations, callers, sweep, builder>>

NextDash == ShowSimulator \/ ShowAdvancedPhysics

SpecDash == InitDash /\ [][NextDash]_vars

----------------------------------------------------------------------------

(* Custom builder page: show_custom_builder (app_enhanced.py) with the     *)
(* builder of the session.                                                 *)

\* layers the stack may hold at once
MaxLayers == 3

\* the doping widgets' dictionary for channel and source_drain layers
Doping(doping_type) == [doping_type |-> doping_type, doping_level |-> Dec(1, 17)]

\* the layer add_layer builds from the widgets: layer type, a material of
\* that type's list (SiO2 stands for the first key of OXIDE_PROPERTIES), the
\* thickness slider (nm) and the properties
LayerWidgets ==
    {[type |-> "gate_metal", material |-> "Aluminum", thickness |-> t,
      properties |-> EmptyDict] : t \in {1, 100}}
    \cup {[type |-> "gate_oxide", material |-> "SiO2", thickness |-> 100,
           properties |-> EmptyDict]}
    \cup {[type |-> "channel", material |-> m, thickness |-> 100,
           properties |-> Doping("N-type")]
          : m \in {"Silicon (Si)", "Gallium Nitride (GaN)"}}
    \cup {[type |-> "source_drain", material |-> "Silicon (Si)",
           thickness |-> 100, properties |-> Doping("P-type")]}
    \cup {[type |-> "substrate", material |-> "Sapphire", thickness |-> 100,
           properties |-> EmptyDict]}

\* a Remove button that also drops the explanation of the removed layer's type
remove_layer_forgetting(self, i) ==
    [layers |-> [k \in 1..(Len(self.layers) - 1) |->
                    IF k < Len(self.layers) - i THEN self.layers[k]
                    ELSE self.layers[k + 1]],
     layer_properties |->
         [t \in DOMAIN self.layer_properties
                \ {self.layers[Len(self.layers) - i].type}
             |-> self.layer_properties[t]]]

\* the Remove button of the i-th expander of the reversed stack, i = 0 for
\* the top layer: builder.layers.pop(len(builder.layers) - 1 - i)
remove_layer(self, i) ==
    [layers |-> [k \in 1..(Len(self.layers) - 1) |->
                    IF k < Len(self.layers) - i THEN self.layers[k]
                    ELSE self.layers[k + 1]],
     layer_properties |-> self.layer_properties]

\* Clear All Layers: builder.layers.clear(); builder.layer_properties.clear()
clear_layers(self) == [layers |-> <<>>, layer_properties |-> EmptyDict]

\* the Current Layer Stack column of a run of the page: for each layer from
\* the top of the stack, builder.layer_properties[layer['type']]
layer_stack_shown(self) ==
    IF \E k \in 1..Len(self.layers) :
           self.layers[k].type \notin DOMAIN self.layer_properties
    THEN Raised("KeyError")
    ELSE Returned([i \in 1..Len(self.layers) |->
             self.layer_properties[self.layers[Len(self.layers) + 1 - i].type]])

InitBuilder ==
    /\ args = NoCall
    /\ ret = [fn |-> "show_custom_builder", out |-> layer_stack_shown(MOSFETBuilder)]
    /\ explanations = EmptyDict
    /\ app_explanations = EmptyDict
    /\ builder = MOSFETBuilder
    /\ callers = <<>>
    /\ sweep = <<>>

\* Add Layer pressed, and the rerun of the page
AddLayer ==
    \E layer \in LayerWidgets :
        /\ Len(builder.layers) < MaxLayers
        /\ builder' = add_layer(builder, layer)
        /\ args' = [fn |-> "add_layer", layer |-> layer]
        /\ ret' = [fn |-> "show_custom_builder",
                   out |-> layer_stack_shown(add_layer(builder, layer))]
        /\ UNCHANGED <<explanations, app_explanations, callers, sweep>>

\* a Remove button pressed, and the rerun of the page
RemoveLayer ==
    \E i \in 0..(Len(builder.layers) - 1) :
        /\ builder' = remove_layer(builder, i)
        /\ args' = [fn |-> "remove", i |-> i]
        /\ ret' = [fn |-> "show_custom_builder",
                   out |-> layer_stack_shown(remove_layer(builder, i))]
        /\ UNCHANGED <<explanations, app_explanations, callers, sweep>>

\* Clear All Layers pressed (the button is drawn when the stack has layers),
\* and the rerun of the page
ClearAllLayers ==
    /\ builder.layers # <<>>
    /\ builder' = clear_layers(builder)
    /\ args' = [fn |-> "clear", i |-> 0]
    /\ ret' = [fn |-> "show_custom_builder",
               out |-> layer_stack_shown(clear_layers(builder))]
    /\ UNCHANGED <<explanations, app_explanations, callers, sweep>>

NextBuilder == AddLayer \/ RemoveLayer \/ ClearAllLayers

SpecBuilder == InitBuilder /\ [][NextBuilder]_vars

----------------------------------------------------------------------------

(* Application studies: AdvancedApplicationSimulator                       *)
(* (modules/advanced_applications.py, and the copy in app_enhanced.py).    *)

\* a dictionary literal with the three material names as its keys
MaterialTable(si, gan, sic) ==
    [m \in {"Silicon (Si)", "Gallium Nitride (GaN)", "Silicon Carbide (SiC)"}
        |-> IF m = "Silicon (Si)" THEN si
            ELSE IF m = "Gallium Nitride (GaN)" THEN gan ELSE sic]

\* gan if material == 'Gallium Nitride (GaN)' else sic if material ==
\* 'Silicon Carbide (SiC)' else other
ByMaterial(material, gan, sic, other) ==
    IF material = "Gallium Nitride (GaN)" THEN gan
    ELSE IF material = "Silicon Carbide (SiC)" THEN sic ELSE other

\* self.applications: the table's keys, each with its "type" entry
applications ==
    [a \in {"Electric Vehicle Motor Drive", "5G Base Station PA",
            "Server CPU Power Delivery", "Solar Microinverter"}
        |-> IF a = "Electric Vehicle Motor Drive" THEN "High-Power Automotive"
            ELSE IF a = "5G Base Station PA" THEN "RF Communications"
            ELSE IF a = "Server CPU Power Delivery"
            THEN "High-Frequency Power Conversion"
            ELSE "Renewable Energy"]

\* _calculate_system_cost(material)
calculate_system_cost(material) ==
    Get(MaterialTable("Low", "Medium", "Medium-High"), material, "Medium")

\* _simulate_ev_drive(material, conditions) with the helpers it calls
simulate_ev_drive(material, conditions) ==
    [efficiency |->
         Get(MaterialTable(Num(96), Dec(985, -1), Dec(975, -1)), material, Num(95)),
     power_loss_reduction |->
         Get(MaterialTable(Num(0), Num(60), Num(40)), material, Num(0)),
     system_weight |->
         Get(MaterialTable(Num(100), Num(85), Num(90)), material, Num(100)),
     cooling_requirements |->
         Get(MaterialTable("Liquid cooling", "Forced air", "Natural convection"),
             material, "Liquid cooling"),
     cost_analysis |-> calculate_system_cost(material),
     key_advantage |->
         Get(MaterialTable("Cost-effective, mature technology",
                           "Highest efficiency, smallest size",
                           "Best thermal performance, high reliability"),
             material, "Balanced performance")]

\* _simulate_5g_pa(material, conditions) with the helpers it calls
simulate_5g_pa(material, conditions) ==
    [power_added_efficiency |->
         Get(MaterialTable(Num(35), Num(45), Num(38)), material, Num(30)),
     output_power |-> Num(10),
     linearity |->
         Get(MaterialTable("Good", "Excellent", "Very Good"), material, "Good"),
     thermal_stability |->
         Get(MaterialTable("Good", "Very Good", "Excellent"), material, "Good"),
     key_advantage |->
         Get(MaterialTable("Integrated solutions, cost-effective",
                           "Highest frequency capability, best efficiency",
                           "Good thermal handling for high power"),
             material, "Standard performance")]

\* _simulate_cpu_vrm(material, conditions) with the helpers it calls
simulate_cpu_vrm(material, conditions) ==
    [efficiency |->
         Get(MaterialTable(Num(88), Num(94), Num(91)), material, Num(85)),
     transient_response |->
         Get(MaterialTable("Good", "Excellent", "Very Good"), material, "Good"),
     power_density |->
         Get(MaterialTable(Num(100), Num(150), Num(120)), material, Num(100)),
     cost_analysis |-> calculate_system_cost(material),
     key_advantage |->
         Get(MaterialTable("Cost-effective for high volume",
                           "Fastest switching, highest power density",
                           "Robust thermal performance"),
             material, "Balanced performance")]

\* _simulate_solar_inverter(material, conditions) with the helpers it calls
simulate_solar_inverter(material, conditions) ==
    [efficiency |->
         Get(MaterialTable(Num(95), Dec(975, -1), Dec(965, -1)), material, Num(94)),
     reliability |->
         Get(MaterialTable("Good", "Very Good", "Excellent"), material, "Good"),
     lifetime |->
         Get(MaterialTable("15+ years", "20+ years", "25+ years"),
             material, "15+ years"),
     cost_analysis |-> calculate_system_cost(material),
     key_advantage |->
         Get(MaterialTable("Proven reliability, low cost",
                           "Highest efficiency, compact size",
                           "Longest lifetime, best high-temperature performance"),
             material, "Reliable performance")]

\* _simulate_general_application(material, conditions)
simulate_general_application(material, conditions) ==
    [efficiency |-> Num(90), performance |-> "Standard",
     cost_analysis |-> "Medium", key_advantage |-> "Balanced performance"]

\* the if/elif chain of simulate_advanced_application
dispatch(application_name, material, conditions) ==
    IF application_name = "Electric Vehicle Motor Drive"
    THEN simulate_ev_drive(material, conditions)
    ELSE IF application_name = "5G Base Station PA"
    THEN simulate_5g_pa(material, conditions)
    ELSE IF application_name = "Server CPU Power Delivery"
    THEN simulate_cpu_vrm(material, conditions)
    ELSE IF application_name = "Solar Microinverter"
    THEN simulate_solar_inverter(material, conditions)
    ELSE simulate_general_application(material, conditions)

\* simulate_advanced_application looking its table up with .get
simulate_advanced_application_get(mosfet_params, application_name, operating_conditions) ==
    IF "channel_material" \notin DOMAIN mosfet_params
    THEN Raised("KeyError")
    ELSE Returned(dispatch(application_name, mosfet_params.channel_material,
                           operating_conditions))

\* simulate_advanced_application(mosfet_params, application_name,
\* operating_conditions): app = self.applications[application_name], then
\* material = mosfet_params['channel_material'], then the chain
simulate_advanced_application(mosfet_params, application_name, operating_conditions) ==
    IF application_name \notin DOMAIN applications
    THEN Raised("KeyError")
    ELSE IF "channel_material" \notin DOMAIN mosfet_params
    THEN Raised("KeyError")
    ELSE Returned(dispatch(application_name, mosfet_params.channel_material,
                           operating_conditions))

\* app_enhanced.py's copies: the same efficiency tables, the other fields by
\* conditional expressions
app_simulate_ev_drive(material, conditions) ==
    [efficiency |->
         Get(MaterialTable(Num(96), Dec(985, -1), Dec(975, -1)), material, Num(95)),
     power_loss_reduction |-> ByMaterial(material, Num(60), Num(40), Num(0)),
     system_weight |-> ByMaterial(material, Num(85), Num(90), Num(100)),
     cooling_requirements |->
         ByMaterial(material, "Forced air", "Natural convection", "Liquid cooling"),
     cost_analysis |-> ByMaterial(material, "Medium", "Medium-High", "Low"),
     key_advantage |->
         ByMaterial(material, "Highest efficiency, smallest size",
                    "Best thermal performance", "Cost-effective")]

app_simulate_5g_pa(material, conditions) ==
    [power_added_efficiency |->
         Get(MaterialTable(Num(35), Num(45), Num(38)), material, Num(30)),
     output_power |-> Num(10),
     linearity |-> ByMaterial(material, "Excellent", "Very Good", "Good"),
     thermal_stability |-> ByMaterial(material, "Very Good", "Excellent", "Good"),
     key_advantage |->
         ByMaterial(material, "Highest frequency capability",
                    "Good thermal handling", "Cost-effective")]

app_simulate_cpu_vrm(material, conditions) ==
    [efficiency |->
         Get(MaterialTable(Num(88), Num(94), Num(91)), material, Num(85)),
     transient_response |-> ByMaterial(material, "Excellent", "Very Good", "Good"),
     power_density |-> ByMaterial(material, Num(150), Num(120), Num(100)),
     cost_analysis |-> ByMaterial(material, "Medium", "Medium-High", "Low"),
     key_advantage |->
         ByMaterial(material, "Fastest switching", "Robust thermal performance",
                    "Cost-effective")]

app_simulate_solar_inverter(material, conditions) ==
    [efficiency |->
         Get(MaterialTable(Num(95), Dec(975, -1), Dec(965, -1)), material, Num(94)),
     reliability |-> ByMaterial(material, "Very Good", "Excellent", "Good"),
     lifetime |-> ByMaterial(material, "20+ years", "25+ years", "15+ years"),
     cost_analysis |-> ByMaterial(material, "Medium", "Medium-High", "Low"),
     key_advantage |->
         ByMaterial(material, "Highest efficiency", "Longest lifetime",
                    "Proven reliability")]

app_dispatch(application_name, material, conditions) ==
    IF application_name = "Electric Vehicle Motor Drive"
    THEN app_simulate_ev_drive(material, conditions)
    ELSE IF application_name = "5G Base Station PA"
    THEN app_simulate_5g_pa(material, conditions)
    ELSE IF application_name = "Server CPU Power Delivery"
    THEN app_simulate_cpu_vrm(material, conditions)
    ELSE IF application_name = "Solar Microinverter"
    THEN app_simulate_solar_inverter(material, conditions)
    ELSE simulate_general_application(material, conditions)

app_simulate_advanced_application(mosfet_params, application_name, operating_conditions) ==
    IF application_name \notin DOMAIN applications
    THEN Raised("KeyError")
    ELSE IF "channel_material" \notin DOMAIN mosfet_params
    THEN Raised("KeyError")
    ELSE Returned(app_dispatch(application_name, mosfet_params.channel_material,
                               operating_conditions))

\* application names: the table's four, and names it does not hold
ApplicationNames ==
    DOMAIN applications \cup {"General Purpose", "Solar Inverter", ""}

\* mosfet_params: a channel material of the tables, one of none of them, or
\* no 'channel_material' entry
MosfetParams ==
    {[channel_material |-> m] :
        m \in {"Silicon (Si)", "Gallium Nitride (GaN)", "Silicon Carbide (SiC)",
               "Germanium", "Silicon"}}
    \cup {EmptyDict, [geometry |-> EmptyDict]}

OperatingConditions == {EmptyDict, [temperature |-> Num(25)]}

ApplicationInputs ==
    {[mosfet_params |-> p, application_name |-> a, operating_conditions |-> c] :
        p \in MosfetParams, a \in ApplicationNames, c \in OperatingConditions}

InitApplication ==
    /\ args \in ApplicationInputs
    /\ ret = NoCall
    /\ explanations = EmptyDict
    /\ app_explanations = EmptyDict
    /\ builder = MOSFETBuilder
    /\ callers = <<>>
    /\ sweep = <<>>

\* simulator.simulate_advanced_application(...), modules/advanced_applications.py
CallApplication ==
    /\ ret' = [fn |-> "simulate_advanced_application",
               out |-> simulate_advanced_application(
                           args.mosfet_params, args.application_name,
                           args.operating_conditions)]
    /\ UNCHANGED <<args, explanations, app_explanations, callers, sweep, builder>>

\* the same call on app_enhanced.py's AdvancedApplicationSimulator
CallApplicationApp ==
    /\ ret' = [fn |-> "app_simulate_advanced_application",
               out |-> app_simulate_advanced_application(
                           args.mosfet_params, args.application_name,
                           args.operating_conditions)]
    /\ UNCHANGED <<args, explanations, app_explanations, callers, sweep, builder>>

NextApplication == CallApplication \/ CallApplicationApp

SpecApplication == InitApplication /\ [][NextApplication]_vars

----------------------------------------------------------------------------

(* Properties.  What the properties below say about a call is written out  *)
(* here on its own, from the arithmetic alone, and not with the operators  *)
(* of the evaluators.                                                      *)

BasicCall == ret.fn \in {"calculate_drain_current", "app_calculate_drain_current"}

ExtCall ==
    ret.fn \in {"calculate_with_short_channel_effects",
                "app_calculate_with_short_channel_effects"}

\* the evaluator fn, called again with other arguments
BasicAt(fn, V_gs, V_ds, material, geometry) ==
    IF fn = "calculate_drain_current"
    THEN calculate_drain_current(V_gs, V_ds, material, geometry)
    ELSE app_calculate_drain_current(V_gs, V_ds, material, geometry)

\* the other copy of the basic evaluator
OtherBasic(fn) ==
    IF fn = "calculate_drain_current" THEN "app_calculate_drain_current"
    ELSE "calculate_drain_current"

\* temperature is <<>> when the caller leaves the argument out
ExtAt(fn, V_gs, V_ds, material, geometry, temperature) ==
    IF fn = "calculate_with_short_channel_effects"
    THEN calculate_with_short_channel_effects(
             V_gs, V_ds, material, geometry,
             IF temperature = <<>> THEN Num(temperature_default)
             ELSE temperature[1])
    ELSE app_calculate_with_short_channel_effects(
             V_gs, V_ds, material, geometry,
             IF temperature = <<>> THEN Num(app_temperature_default)
             ELSE temperature[1])

\* the field of a dictionary, or the documented default when it is missing
Field(dict, key, default) == IF key \in DOMAIN dict THEN dict[key] ELSE default

FieldMobility == Field(args.material, "electron_mobility_value", Num(1400))

FieldCox == Field(args.geometry, "C_ox", Dec(345, -5))

FieldW == Field(args.geometry, "width", Dec(10, -6))

FieldL == Field(args.geometry, "length", Dec(1, -6))

FieldVth == Field(args.geometry, "V_th", Dec(7, -1))

\* mu_SI * C_ox * (W / L) * ((V_gs - V_th) * V_ds - 0.5 * V_ds^2), mu_SI = mu * 1e-4
LinearFormula(mu, C_ox, W, L, V_gs, V_th, V_ds) ==
    Mul(Mul(Mul(Mul(mu, Dec(1, -4)), C_ox), Div(W, L)),
        Sub(Mul(Sub(V_gs, V_th), V_ds), Mul(Frac(1, 2), Mul(V_ds, V_ds))))

\* 0.5 * mu_SI * C_ox * (W / L) * (V_gs - V_th)^2, mu_SI = mu * 1e-4
SaturationFormula(mu, C_ox, W, L, V_gs, V_th) ==
    Mul(Mul(Mul(Mul(Frac(1, 2), Mul(mu, Dec(1, -4))), C_ox), Div(W, L)),
        Mul(Sub(V_gs, V_th), Sub(V_gs, V_th)))

\* two results of a call agree: both raise the same exception, or both
\* return the same region and the same current
SameResult(r1, r2) ==
    /\ r1.raised = r2.raised
    /\ r1.raised = "none" =>
          /\ r1.value.region = r2.value.region
          /\ Eq(r1.value.I_d, r2.value.I_d)

\* C1: basic evaluator, cut-off.  After a call of either copy with
\* V_gs <= V_th (equality included), whatever V_ds, the material and the
\* geometry are, the call returns I_d = 0 and region "Cut-off"; no other
\* formula is evaluated: the call returns even when L = 0, where W / L would
\* raise, and the explanation it stores is the cut-off text, which prints no
\* V_ds_sat.
C1_CutOff ==
    (BasicCall /\ Le(args.V_gs, FieldVth)) =>
        /\ ret.out.raised = "none"
        /\ IsZero(ret.out.value.I_d)
        /\ ret.out.value.region = "Cut-off"
        /\ ret.out.value.explanation = <<"Cut-off">>

\* a call at the tie V_gs = V_th with L = 0 has returned Cut-off
C1_Witness ==
    /\ BasicCall
    /\ Eq(args.V_gs, FieldVth)
    /\ IsZero(FieldL)
    /\ ret.out.raised = "none"
    /\ ret.out.value.region = "Cut-off"

\* C2: basic evaluator, conduction regions.  After a call with V_gs > V_th
\* (and L # 0) the result is region "Linear" with
\* I_d = mu_SI*C_ox*(W/L)*((V_gs-V_th)*V_ds - 0.5*V_ds^2) exactly when
\* V_ds < V_gs - V_th, and region "Saturation" with
\* I_d = 0.5*mu_SI*C_ox*(W/L)*(V_gs-V_th)^2 otherwise, the tie
\* V_ds = V_gs - V_th included; mu_SI is the mobility times 1e-4.  And for
\* every input the other copy of the evaluator hands back the same result.
C2_ConductionRegions ==
    BasicCall =>
        /\ (Lt(FieldVth, args.V_gs) /\ ~IsZero(FieldL)) =>
              /\ ret.out.raised = "none"
              /\ IF Lt(args.V_ds, Sub(args.V_gs, FieldVth))
                 THEN /\ ret.out.value.region = "Linear"
                      /\ Eq(ret.out.value.I_d,
                            LinearFormula(FieldMobility, FieldCox, FieldW, FieldL,
                                          args.V_gs, FieldVth, args.V_ds))
                 ELSE /\ ret.out.value.region = "Saturation"
                      /\ Eq(ret.out.value.I_d,
                            SaturationFormula(FieldMobility, FieldCox, FieldW,
                                              FieldL, args.V_gs, FieldVth))
        /\ SameResult(ret.out,
                      BasicAt(OtherBasic(ret.fn), args.V_gs, args.V_ds,
                              args.material, args.geometry))

\* the app copy has been called at the tie V_ds = V_gs - V_th, V_gs > V_th,
\* and returned Saturation with a current that is not zero
C2_Witness ==
    /\ ret.fn = "app_calculate_drain_current"
    /\ Lt(FieldVth, args.V_gs)
    /\ Eq(args.V_ds, Sub(args.V_gs, FieldVth))
    /\ ret.out.raised = "none"
    /\ ret.out.value.region = "Saturation"
    /\ ~IsZero(ret.out.value.I_d)

\* C3: basic evaluator, continuity.  For the V_gs > V_th, mobility, C_ox, W
\* and L # 0 of a call, the Linear branch's current at V_ds = V_gs - V_th
\* equals the Saturation branch's current, and the current the evaluator
\* returns at V_ds = V_gs - V_th (a Saturation result) is that value: no jump
\* at the boundary.
C3_Continuity ==
    (BasicCall /\ Lt(FieldVth, args.V_gs) /\ ~IsZero(FieldL)) =>
        LET V_tie == Sub(args.V_gs, FieldVth)
            mu_si == Mul(FieldMobility, Dec(1, -4))
            atTie == BasicAt(ret.fn, args.V_gs, V_tie, args.material,
                             args.geometry)
        IN  /\ Eq(I_d_linear(mu_si, FieldCox, FieldW, FieldL,
                             args.V_gs, FieldVth, V_tie),
                  I_d_saturation(mu_si, FieldCox, FieldW, FieldL,
                                 args.V_gs, FieldVth))
            /\ Eq(app_I_d_linear(mu_si, FieldCox, FieldW, FieldL,
                                 args.V_gs, FieldVth, V_tie),
                  app_I_d_saturation(mu_si, FieldCox, FieldW, FieldL,
                                     args.V_gs, FieldVth))
            /\ atTie.raised = "none"
            /\ atTie.value.region = "Saturation"
            /\ Eq(atTie.value.I_d,
                  LinearFormula(FieldMobility, FieldCox, FieldW, FieldL,
                                args.V_gs, FieldVth, V_tie))

\* a call in the Linear region, below the boundary, with a current below the
\* current at the boundary
C3_Witness ==
    /\ ret.fn = "calculate_drain_current"
    /\ ret.out.raised = "none"
    /\ ret.out.value.region = "Linear"
    /\ Lt(Num(0), args.V_ds)
    /\ Lt(ret.out.value.I_d,
          BasicAt(ret.fn, args.V_gs, Sub(args.V_gs, FieldVth), args.material,
                  args.geometry).value.I_d)

\* C4: basic evaluator, monotonicity.  For the V_gs > V_th, mobility, C_ox,
\* W and L # 0 of a call at V_ds, and every V_ds2 >= V_ds (negative drain
\* voltages included), the current returned at V_ds is at most the current
\* returned at V_ds2.
C4_Monotone ==
    (BasicCall /\ Lt(FieldVth, args.V_gs) /\ ~IsZero(FieldL)) =>
        \A V_ds2 \in VdsValues :
            Le(args.V_ds, V_ds2) =>
                LET r2 == BasicAt(ret.fn, args.V_gs, V_ds2, args.material,
                                  args.geometry)
                IN  /\ ret.out.raised = "none"
                    /\ r2.raised = "none"
                    /\ Le(ret.out.value.I_d, r2.value.I_d)

\* a call at a negative V_ds has returned a negative Linear current
C4_Witness ==
    /\ BasicCall
    /\ Lt(FieldVth, args.V_gs)
    /\ Lt(args.V_ds, Num(0))
    /\ ret.out.raised = "none"
    /\ ret.out.value.region = "Linear"
    /\ Lt(ret.out.value.I_d, Num(0))

\* the geometry with W replaced by 2 * W
DoubledWidth(geometry) ==
    [k \in DOMAIN geometry \cup {"width"} |->
        IF k = "width" THEN Mul(Num(2), Field(geometry, "width", Dec(10, -6)))
        ELSE geometry[k]]

\* C6: basic evaluator, width scaling.  After a call, for whatever V_gs,
\* V_ds, material and geometry it had, the same call with W replaced by 2 * W
\* returns the same region and exactly twice the current, in Cut-off, Linear
\* and Saturation alike (and raises when the call raised).
C6_WidthDoubling ==
    BasicCall =>
        LET r2 == BasicAt(ret.fn, args.V_gs, args.V_ds, args.material,
                          DoubledWidth(args.geometry))
        IN  /\ r2.raised = ret.out.raised
            /\ ret.out.raised = "none" =>
                  /\ r2.value.region = ret.out.value.region
                  /\ Eq(r2.value.I_d, Mul(Num(2), ret.out.value.I_d))

\* a Saturation call has returned a current that is not zero, and the call
\* with twice the width returns another current
C6_Witness ==
    /\ BasicCall
    /\ ret.out.raised = "none"
    /\ ret.out.value.region = "Saturation"
    /\ ~IsZero(ret.out.value.I_d)
    /\ ~Eq(ret.out.value.I_d,
           BasicAt(ret.fn, args.V_gs, args.V_ds, args.material,
                   DoubledWidth(args.geometry)).value.I_d)

\* what a call returns when every field has the value Field gives it
DefaultsResult ==
    IF Le(args.V_gs, FieldVth) THEN [I_d |-> Num(0), region |-> "Cut-off"]
    ELSE IF Lt(args.V_ds, Sub(args.V_gs, FieldVth))
    THEN [I_d |-> LinearFormula(FieldMobility, FieldCox, FieldW, FieldL,
                                args.V_gs, FieldVth, args.V_ds),
          region |-> "Linear"]
    ELSE [I_d |-> SaturationFormula(FieldMobility, FieldCox, FieldW, FieldL,
                                    args.V_gs, FieldVth),
          region |-> "Saturation"]

Example1 ==
    /\ BasicCall
    /\ args.material = EmptyDict /\ args.geometry = EmptyDict
    /\ Eq(args.V_gs, Num(3)) /\ Eq(args.V_ds, Num(5))

Example2 ==
    /\ BasicCall
    /\ args.material = EmptyDict /\ args.geometry = EmptyDict
    /\ Eq(args.V_gs, Num(3)) /\ Eq(args.V_ds, Num(1))

\* the part of C7 that holds as stated and as amended: the defaults
DefaultsSubstituted ==
    (BasicCall /\ ~IsZero(FieldL)) =>
        /\ ret.out.raised = "none"
        /\ ret.out.value.region = DefaultsResult.region
        /\ Eq(ret.out.value.I_d, DefaultsResult.I_d)

\* C7 (amended): basic evaluator, defaults.  Each field missing from the
\* material or geometry dictionary is replaced, independently of the others,
\* by its default (mobility 1400 cm2/V.s, C_ox 3.45e-3 F/m2, W 10e-6 m,
\* L 1e-6 m, V_th 0.7 V) and each field present is used; with both
\* dictionaries empty, V_gs = 3, V_ds = 5 returns Saturation with
\* I_d = 0.5*0.14*3.45e-3*10*2.3^2 = 0.01277535 A (about 12.78 mA) and
\* V_gs = 3, V_ds = 1 returns Linear with
\* I_d = 0.14*3.45e-3*10*(2.3*1 - 0.5) = 0.008694 A (about 8.69 mA).
C7_Defaults ==
    /\ DefaultsSubstituted
    /\ Example1 =>
          /\ ret.out.value.region = "Saturation"
          /\ Eq(ret.out.value.I_d,
                Mul(Mul(Mul(Mul(Frac(1, 2), Dec(14, -2)), Dec(345, -5)), Num(10)),
                    Mul(Dec(23, -1), Dec(23, -1))))
          /\ Eq(ret.out.value.I_d, Dec(1277535, -8))
    /\ Example2 =>
          /\ ret.out.value.region = "Linear"
          /\ Eq(ret.out.value.I_d,
                Mul(Mul(Mul(Dec(14, -2), Dec(345, -5)), Num(10)),
                    Sub(Mul(Dec(23, -1), Num(1)), Frac(1, 2))))
          /\ Eq(ret.out.value.I_d, Dec(8694, -6))

\* a call with a threshold of its own and every other field missing has
\* returned a current that is not zero
C7_Witness ==
    /\ BasicCall
    /\ DOMAIN args.geometry = {"V_th"}
    /\ args.material = EmptyDict
    /\ ~Eq(args.geometry.V_th, Dec(7, -1))
    /\ ret.out.raised = "none"
    /\ ret.out.value.region = "Linear"
    /\ ~IsZero(ret.out.value.I_d)

\* C7 (as stated): the defaults as above, and the two examples return
\* currents of about 1.24 mA (1.235 mA <= I_d < 1.245 mA) and about 0.87 mA
\* (0.865 mA <= I_d < 0.875 mA).
C7_AsStated ==
    /\ DefaultsSubstituted
    /\ Example1 =>
          /\ ret.out.value.region = "Saturation"
          /\ Le(Dec(1235, -6), ret.out.value.I_d)
          /\ Lt(ret.out.value.I_d, Dec(1245, -6))
    /\ Example2 =>
          /\ ret.out.value.region = "Linear"
          /\ Le(Dec(865, -6), ret.out.value.I_d)
          /\ Lt(ret.out.value.I_d, Dec(875, -6))

\* the Celsius temperature a call evaluates at: the argument, or the default
\* of the signature (temperature=300) when the caller leaves it out
CelsiusOf(temperature) == IF temperature = <<>> THEN Num(300) ELSE temperature[1]

\* eta = 0.1 / L_um, L_um = L * 1e6
EtaOf(geometry) == Div(Dec(1, -1), Mul(geometry.length, Dec(1, 6)))

\* V_th0 - 0.002 * (T - 300) - (0.1 / L_um) * V_ds, T = celsius + 273.15
EffectiveVth(V_th0, celsius, geometry, V_ds) ==
    Sub(Sub(V_th0,
            Mul(Dec(2, -3), Sub(Add(celsius, Dec(27315, -2)), Num(300)))),
        Mul(EtaOf(geometry), V_ds))

C8_EffectiveVth ==
    (ExtCall /\ ret.out.raised = "none") =>
        LET V_th0 == FieldVth
            effects == ret.out.value.effects
        IN  /\ Eq(effects.effective_vth,
                  EffectiveVth(V_th0, CelsiusOf(args.temperature),
                               args.geometry, args.V_ds))
            /\ Eq(effects.dibl_effect, Sub(effects.effective_vth, V_th0))
            /\ args.temperature = <<Dec(2685, -2)>> =>
                  Eq(effects.effective_vth,
                     Sub(V_th0, Mul(EtaOf(args.geometry), args.V_ds)))

\* a call of the module's variant at 26.85 C, V_ds # 0, has returned a
\* threshold that DIBL alone has moved
C8_Witness ==
    /\ ret.fn = "calculate_with_short_channel_effects"
    /\ args.temperature = <<Dec(2685, -2)>>
    /\ ~IsZero(args.V_ds)
    /\ ret.out.raised = "none"
    /\ ~Eq(ret.out.value.effects.effective_vth, FieldVth)
    /\ Eq(ret.out.value.effects.dibl_effect,
          Neg(Mul(EtaOf(args.geometry), args.V_ds)))

\* C9: extended evaluator, default temperature.  A call that leaves the
\* temperature out evaluates at 27 C, T = 300.15 K: its effective threshold
\* is V_th0 - 0.002*0.15 - (0.1/L_um)*V_ds, and it returns what the call
\* with temperature 27 returns.
C9_DefaultTemperature ==
    (ExtCall /\ args.temperature = <<>> /\ ret.out.raised = "none") =>
        /\ Eq(ret.out.value.effects.effective_vth,
              Sub(Sub(FieldVth, Mul(Dec(2, -3), Dec(15, -2))),
                  Mul(EtaOf(args.geometry), args.V_ds)))
        /\ SameResult(ret.out,
                      ExtAt(ret.fn, args.V_gs, args.V_ds, args.material,
                            args.geometry, <<Num(27)>>))

\* mu(T) in SI: mu_300 * (300 / T)^2 * 1e-4
MobilitySI(material, celsius) ==
    Mul(Mul(material.electron_mobility_value,
            Sq(Div(Num(300), Add(celsius, Dec(27315, -2))))),
        Dec(1, -4))

\* eps_r * 8.854e-12 / t_ox
OxideCapacitance(material, geometry) ==
    Div(Mul(Field(material, "dielectric_constant", Dec(39, -1)), Dec(8854, -15)),
        Field(geometry, "oxide_thickness", Dec(2, -9)))

\* E_c * L with E_c = v_sat / mu, v_sat in m/s and mu in SI
CriticalVoltageSI(material, geometry, celsius) ==
    Mul(Div(Mul(Field(material, "saturation_velocity", Dec(1, 7)), Dec(1, -2)),
            MobilitySI(material, celsius)),
        geometry.length)

\* the current the formulas give with the mobility mu in them, for the
\* region and the effective threshold the call returned
CurrentWith(mu, EcL, fn, region, V_gt) ==
    LET k == Mul(Mul(mu, OxideCapacitance(args.material, args.geometry)),
                 Div(args.geometry.width, args.geometry.length))
        lambda == EtaOf(args.geometry)
        triode == Sub(Mul(V_gt, args.V_ds), Mul(Half, Sq(args.V_ds)))
    IN  IF fn = "app_calculate_with_short_channel_effects"
        THEN IF region = "Linear" THEN Mul(k, triode)
             ELSE Mul(Mul(Mul(Half, k), Sq(V_gt)),
                      Add(Num(1), Mul(lambda, Sub(args.V_ds, V_gt))))
        ELSE IF region = "Linear"
             THEN Div(Mul(k, triode), Add(Num(1), Div(args.V_ds, EcL)))
             ELSE Mul(Div(Mul(Mul(Half, k), Sq(V_gt)),
                          Add(Num(1), Div(V_gt, EcL))),
                      Add(Num(1),
                          Mul(lambda,
                              Sub(args.V_ds,
                                  Div(V_gt, Add(Num(1), Div(V_gt, EcL)))))))

\* C10: extended evaluator, units.  The current a conducting call returns
\* is the Linear or Saturation formula with the temperature-corrected
\* mobility in SI (mu(T) in cm2/V.s times 1e-4) in it and in the critical
\* field E_c = v_sat / mu, v_sat in m/s.
C10_MobilitySI ==
    (ExtCall /\ ret.out.raised = "none" /\ ret.out.value.region # "Cut-off") =>
        Eq(ret.out.value.I_d,
           CurrentWith(MobilitySI(args.material, CelsiusOf(args.temperature)),
                       CriticalVoltageSI(args.material, args.geometry,
                                         CelsiusOf(args.temperature)),
                       ret.fn, ret.out.value.region,
                       Sub(args.V_gs, ret.out.value.effects.effective_vth)))

\* what the code does: the same formulas with mu(T) in cm2/V.s, 1e4 times the
\* SI value, in them and in E_c
CurrentWithMobilityInCm ==
    (ExtCall /\ ret.out.raised = "none" /\ ret.out.value.region # "Cut-off") =>
        Eq(ret.out.value.I_d,
           CurrentWith(Mul(MobilitySI(args.material, CelsiusOf(args.temperature)),
                           Dec(1, 4)),
                       Mul(CriticalVoltageSI(args.material, args.geometry,
                                             CelsiusOf(args.temperature)),
                           Dec(1, -4)),
                       ret.fn, ret.out.value.region,
                       Sub(args.V_gs, ret.out.value.effects.effective_vth)))

\* mu(T) as the code holds it, in cm2/V.s: mu_300 * (300 / T)^2
MobilityCm(material, celsius) ==
    Mul(material.electron_mobility_value,
        Sq(Div(Num(300), Add(celsius, Dec(27315, -2)))))

\* E_c * L as the code computes it: E_c = v_sat / mu, v_sat in m/s, mu = mu(T)
CriticalVoltage(material, geometry, celsius) ==
    Mul(Div(Mul(Field(material, "saturation_velocity", Dec(1, 7)), Dec(1, -2)),
            MobilityCm(material, celsius)),
        geometry.length)

\* V_ds_sat: V_gt in the simple variant, V_gt / (1 + V_gt/(E_c*L)) in the
\* velocity-saturation variant
SaturationVoltage(fn, V_gt, EcL) ==
    IF fn = "app_calculate_with_short_channel_effects" THEN V_gt
    ELSE Div(V_gt, Add(Num(1), Div(V_gt, EcL)))

\* C11: extended evaluator, region classification.  After a call, with
\* V_th_eff the effective threshold and V_gt = V_gs - V_th_eff: the result is
\* Cut-off with I_d = 0 exactly when V_gs <= V_th_eff; otherwise it is Linear
\* exactly when V_ds < V_ds_sat and Saturation otherwise, where V_ds_sat = V_gt
\* in the simple variant and V_gt / (1 + V_gt/(E_c*L)) in the
\* velocity-saturation variant; in Saturation
\* I_d = I_d_sat * (1 + lambda*(V_ds - V_ds_sat)) with lambda = 0.1/L_um and
\* I_d_sat the variant's saturation current.
C11_Regions ==
    (ExtCall /\ ret.out.raised = "none") =>
        LET celsius == CelsiusOf(args.temperature)
            V_th_eff == EffectiveVth(FieldVth, celsius, args.geometry, args.V_ds)
            V_gt == Sub(args.V_gs, V_th_eff)
            EcL == CriticalVoltage(args.material, args.geometry, celsius)
        IN  IF Le(args.V_gs, V_th_eff)
            THEN /\ ret.out.value.region = "Cut-off"
                 /\ IsZero(ret.out.value.I_d)
            ELSE IF Lt(args.V_ds, SaturationVoltage(ret.fn, V_gt, EcL))
            THEN ret.out.value.region = "Linear"
            ELSE /\ ret.out.value.region = "Saturation"
                 /\ Eq(ret.out.value.I_d,
                       CurrentWith(MobilityCm(args.material, celsius), EcL,
                                   ret.fn, "Saturation", V_gt))

\* the velocity-saturation variant has returned Saturation at a V_ds below
\* V_gt, where the simple variant is Linear
C11_Witness ==
    /\ ret.fn = "calculate_with_short_channel_effects"
    /\ ret.out.raised = "none"
    /\ ret.out.value.region = "Saturation"
    /\ ~IsZero(ret.out.value.I_d)
    /\ Lt(args.V_ds, Sub(args.V_gs, ret.out.value.effects.effective_vth))
    /\ ExtAt("app_calculate_with_short_channel_effects", args.V_gs, args.V_ds,
             args.material, args.geometry, args.temperature).value.region
          = "Linear"

\* C12: extended evaluator, continuity.  For the mobility, C_ox, W, L, E_c
\* and V_gt of a call in conduction, in the variant called: the Linear
\* current formula at V_ds = V_ds_sat equals the Saturation current formula
\* at V_ds = V_ds_sat, where the factor 1 + lambda*(V_ds - V_ds_sat) is 1.
C12_ExtContinuity ==
    (ExtCall /\ ret.out.raised = "none" /\ ret.out.value.region # "Cut-off") =>
        LET celsius == CelsiusOf(args.temperature)
            mu_n == MobilityCm(args.material, celsius)
            C_ox == OxideCapacitance(args.material, args.geometry)
            W == args.geometry.width
            L == args.geometry.length
            V_th_sc == ret.out.value.effects.effective_vth
            V_gt == Sub(args.V_gs, V_th_sc)
            EcL == CriticalVoltage(args.material, args.geometry, celsius)
            V_ds_sat == SaturationVoltage(ret.fn, V_gt, EcL)
        IN  IF ret.fn = "calculate_with_short_channel_effects"
            THEN Eq(short_channel_I_d_linear(mu_n, C_ox, W, L, V_gt, V_ds_sat, EcL),
                    short_channel_I_d_sat(mu_n, C_ox, W, L, V_gt, EcL))
            ELSE Eq(app_short_channel_I_d_linear(mu_n, C_ox, W, L, args.V_gs,
                                                 V_th_sc, V_ds_sat),
                    app_short_channel_I_d_sat(mu_n, C_ox, W, L, args.V_gs,
                                              V_th_sc))

\* the velocity-saturation variant has returned a conducting result for a
\* device whose V_ds_sat is below V_gt and whose saturation current is not 0
C12_Witness ==
    /\ ret.fn = "calculate_with_short_channel_effects"
    /\ ret.out.raised = "none"
    /\ ret.out.value.region # "Cut-off"
    /\ LET celsius == CelsiusOf(args.temperature)
           V_gt == Sub(args.V_gs, ret.out.value.effects.effective_vth)
           EcL == CriticalVoltage(args.material, args.geometry, celsius)
       IN  /\ Lt(SaturationVoltage(ret.fn, V_gt, EcL), V_gt)
           /\ ~IsZero(short_channel_I_d_sat(
                          MobilityCm(args.material, celsius),
                          OxideCapacitance(args.material, args.geometry),
                          args.geometry.width, args.geometry.length, V_gt, EcL))

\* C13: extended evaluator, velocity-saturation diagnostic.  After a call of
\* either variant, velocity_saturation_factor equals V_ds_sat / V_gt when the
\* device conducts (V_gs > V_th_eff) and 0 in Cut-off.
C13_VelocitySaturationFactor ==
    (ExtCall /\ ret.out.raised = "none") =>
        LET celsius == CelsiusOf(args.temperature)
            V_gt == Sub(args.V_gs, ret.out.value.effects.effective_vth)
            EcL == CriticalVoltage(args.material, args.geometry, celsius)
            factor == ret.out.value.effects.velocity_saturation_factor
        IN  IF ret.out.value.region = "Cut-off" THEN IsZero(factor)
            ELSE Eq(factor, Div(SaturationVoltage(ret.fn, V_gt, EcL), V_gt))

\* the part of C13 that holds: the velocity-saturation variant
ModuleVelocitySaturationFactor ==
    ret.fn = "calculate_with_short_channel_effects" => C13_VelocitySaturationFactor

\* what the simple variant returns: 0.8, whatever the region
AppVelocitySaturationFactor ==
    (ret.fn = "app_calculate_with_short_channel_effects"
        /\ ret.out.raised = "none") =>
        Eq(ret.out.value.effects.velocity_saturation_factor, Dec(8, -1))

\* mobility, dielectric constant, saturation velocity, L, W and t_ox of the
\* arguments (defaults included) are strictly positive
PositiveParameters ==
    /\ Lt(Num(0), FieldMobility)
    /\ Lt(Num(0), Field(args.material, "dielectric_constant", Dec(39, -1)))
    /\ Lt(Num(0), Field(args.material, "saturation_velocity", Dec(1, 7)))
    /\ Lt(Num(0), FieldL)
    /\ Lt(Num(0), FieldW)
    /\ Lt(Num(0), Field(args.geometry, "oxide_thickness", Dec(2, -9)))

\* C14: error discipline.  Whenever mobility, dielectric constant,
\* saturation velocity, L, W and t_ox are strictly positive, a call of either
\* evaluator (basic or extended, either copy) raises no exception, whatever
\* V_gs, V_ds (negative included) and the temperature argument are.
C14_NoException ==
    ((BasicCall \/ ExtCall) /\ PositiveParameters) => ret.out.raised = "none"

\* the part of C14 that holds: the basic evaluator
BasicNoException ==
    (BasicCall /\ PositiveParameters) => ret.out.raised = "none"

\* where the extended evaluator raises although the parameters are positive:
\* at T = 0 (300 / T), in both variants, and at V_ds = -E_c*L in the Linear
\* branch of the velocity-saturation variant (1 + V_ds/(E_c*L) = 0)
ExtendedExceptions ==
    (ExtCall /\ PositiveParameters) =>
        (ret.out.raised # "none" <=>
            \/ args.temperature = <<Dec(-27315, -2)>>
            \/ /\ ret.fn = "calculate_with_short_channel_effects"
               /\ Lt(EffectiveVth(FieldVth, CelsiusOf(args.temperature),
                                  args.geometry, args.V_ds), args.V_gs)
               /\ Eq(args.V_ds,
                     Neg(CriticalVoltage(args.material, args.geometry,
                                         CelsiusOf(args.temperature)))))

\* C15: basic evaluator, L = 0.  A call of either copy raises no error for
\* any input: with a channel length of zero it still returns an
\* (I_d, region) pair.
C15_ZeroLengthReturns ==
    BasicCall => ret.out.raised = "none"

\* what the code does with L = 0: Cut-off returns, conduction raises
\* ZeroDivisionError at W / L
ZeroLengthRaises ==
    (BasicCall /\ IsZero(FieldL)) =>
        IF Le(args.V_gs, FieldVth)
        THEN ret.out.raised = "none" /\ ret.out.value.region = "Cut-off"
        ELSE ret.out.raised = "ZeroDivisionError"

\* C16 (as stated): the auxiliary functions have no error outcome: for every
\* thickness, negative ones included, a call of calculate_breakdown_voltage
\* or of calculate_quantum_effects (either copy) returns a value.
C16_AuxiliaryReturns ==
    ret.fn \in {"calculate_breakdown_voltage", "calculate_quantum_effects",
                "app_calculate_quantum_effects"}
        => ret.out.raised = "none"

\* What the code does: the breakdown estimate always returns; the quantum
\* estimate raises exactly when t_ox + 0.3e-9 is zero, t_ox = -0.3 nm.
AuxiliaryExceptions ==
    /\ ret.fn = "calculate_breakdown_voltage" => ret.out.raised = "none"
    /\ ret.fn \in {"calculate_quantum_effects", "app_calculate_quantum_effects"}
           => ret.out.raised =
                  (IF Eq(args.t_ox, Dec(-3, -10))
                   THEN "ZeroDivisionError" ELSE "none")

\* C17 (as stated): evaluator calls mutate nothing: after any sequence of
\* calls the evaluator objects hold exactly the state they had after
\* construction (self.explanations = {}).
C17_NothingMutated == explanations = EmptyDict /\ app_explanations = EmptyDict

\* What the code does to the objects: calculate_drain_current stores two
\* entries, calculate_breakdown_voltage one; an object that has returned from
\* calculate_drain_current holds that call's region.
ExplanationsWritten ==
    /\ DOMAIN explanations \subseteq
           {"current_calculation", "operating_region", "breakdown"}
    /\ DOMAIN app_explanations \subseteq
           {"current_calculation", "operating_region"}
    /\ (ret.fn = "calculate_drain_current" /\ ret.out.raised = "none")
           => explanations["operating_region"] = ret.out.value.region
    /\ (ret.fn = "app_calculate_drain_current" /\ ret.out.raised = "none")
           => app_explanations["operating_region"] = ret.out.value.region
    /\ ret.fn = "calculate_breakdown_voltage"
           => "breakdown" \in DOMAIN explanations

\* the value the method fn returns on an object constructed just now
FirstCall(fn, a) ==
    CASE fn \in {"calculate_drain_current", "app_calculate_drain_current"} ->
             BasicAt(fn, a.V_gs, a.V_ds, a.material, a.geometry)
      [] fn \in {"calculate_with_short_channel_effects",
                 "app_calculate_with_short_channel_effects"} ->
             ExtAt(fn, a.V_gs, a.V_ds, a.material, a.geometry, a.temperature)
      [] fn = "calculate_breakdown_voltage" ->
             calculate_breakdown_voltage(a.material, a.thickness)
      [] fn = "calculate_quantum_effects" ->
             calculate_quantum_effects(a.material, a.t_ox, a.E_field)
      [] fn = "app_calculate_quantum_effects" ->
             app_calculate_quantum_effects(a.material, a.t_ox, a.E_field)

BothLeft == \A c \in Callers : callers[c].pc \in {"returned", "raised"}

\* what a caller's call hands back when it runs alone
Alone(c) ==
    BasicAt("calculate_drain_current", callers[c].args.V_gs,
            callers[c].args.V_ds, callers[c].args.material,
            callers[c].args.geometry)

\* the object after the call of c1 and then the call of c2, run one after
\* the other on a fresh object
OneAfterTheOther(c1, c2) ==
    StoreExplanations(StoreExplanations(EmptyDict, Alone(c1)), Alone(c2))

\* C19 (as stated): two overlapping calls on one object are independent:
\* each hands back what it hands back alone, and when both have left the
\* method the object is in the state that running the two calls one after
\* the other, in one of the two orders, produces.
C19_Independent ==
    BothLeft =>
        /\ \A c \in Callers : callers[c].local = Alone(c)
        /\ \/ explanations = OneAfterTheOther("A", "B")
           \/ explanations = OneAfterTheOther("B", "A")

\* What the code guarantees: the values handed back are those of the calls
\* alone (they are locals), and each stored entry was written by one of the
\* callers that returned; the two entries may come from different callers.
OverlappingCalls ==
    BothLeft =>
        /\ \A c \in Callers : callers[c].local = Alone(c)
        /\ \A key \in DOMAIN explanations :
               \E c \in Callers :
                   /\ callers[c].pc = "returned"
                   /\ explanations[key] =
                          StoreExplanations(EmptyDict, Alone(c))[key]

\* the j-th of the 50 evenly spaced drain voltages from 0 V to 10 V
SweepVoltage(j) == Div(Mul(Num(10), Num(j - 1)), Num(49))

\* what the evaluator of the chart's copy does with sample j of the trace of
\* material number mi and gate voltage number gi (2 V, 3 V, 4 V, 5 V)
SweepCall(mi, gi, j) ==
    BasicAt(IF sweep.fn = "create_iv_characteristics"
            THEN "calculate_drain_current"
            ELSE "app_calculate_drain_current",
            Num(1 + gi), SweepVoltage(j), args.materials_data[mi][2],
            args.geometry)

\* the y-value the chart owes for that sample: the current in mA, or 0 when
\* the evaluator raises
OwedValue(out) ==
    IF out.raised = "none" THEN Mul(out.value.I_d, Num(1000)) ELSE Num(0)

\* C20: the I-V chart tolerates evaluator failures.  At every point of the
\* sweep there is one y-value per V_ds sample consumed, and the latest is
\* I_d * 1000 when the evaluator returned and 0 when it raised; the traces
\* drawn so far are, in order, those of each material and each V_gs of 2, 3,
\* 4, 5 V, each with 50 values, and whenever a trace has just been added
\* (the end of the sweep included) every value of every trace is the one
\* owed for its sample, whatever failed before it.
C20_SweepTolerance ==
    /\ Len(sweep.I_d_values) = sweep.i
    /\ sweep.i > 0 =>
           Eq(sweep.I_d_values[sweep.i],
              OwedValue(SweepCall(sweep.m, sweep.g, sweep.i)))
    /\ Len(sweep.traces) = 4 * (sweep.m - 1) + (sweep.g - 1)
    /\ sweep.m <= Len(args.materials_data) + 1
    /\ \A k \in 1..Len(sweep.traces) :
           /\ sweep.traces[k].name =
                  <<args.materials_data[((k - 1) \div 4) + 1][1],
                    Num(2 + ((k - 1) % 4))>>
           /\ Len(sweep.traces[k].y) = 50
    /\ sweep.i = 0 =>
           \A k \in 1..Len(sweep.traces) : \A j \in 1..50 :
               Eq(sweep.traces[k].y[j],
                  OwedValue(SweepCall(((k - 1) \div 4) + 1,
                                      ((k - 1) % 4) + 1, j)))

\* a finished chart of two materials on a geometry with L = 0: the calls of
\* the second trace (V_gs = 3 V) raised, and the six traces after it, those
\* of the second material included, were still drawn; the first trace of
\* each material comes from calls that returned
C20_Witness ==
    /\ Len(args.materials_data) = 2
    /\ sweep.m = 3
    /\ Len(sweep.traces) = 8
    /\ SweepCall(1, 2, 1).raised = "ZeroDivisionError"
    /\ SweepCall(2, 1, 50).raised = "none"

\* C21: the dashboard's inputs are valid.  After a run of the Basic
\* Simulator page or of the Advanced Physics page with any of the slider
\* values, the geometry the page has built has L > 0 and W > 0 (and
\* t_ox > 0 on the Advanced Physics page, where the temperature in kelvin is
\* positive too), and the page has displayed its results: neither the
\* evaluator call nor the quantum estimate raised, st.error was not shown.
C21_ValidInputs ==
    /\ ret.fn = "show_simulator" =>
           /\ Lt(Num(0), Mul(args.gate_length, Dec(1, -6)))
           /\ Lt(Num(0), Mul(args.gate_width, Dec(1, -6)))
           /\ ret.out.st_error = "none"
    /\ ret.fn = "show_advanced_physics" =>
           /\ Lt(Num(0), Mul(args.gate_length, Dec(1, -9)))
           /\ Lt(Num(0), Mul(args.oxide_thickness, Dec(1, -9)))
           /\ Lt(Num(0), Add(args.temperature, Dec(27315, -2)))
           /\ ret.out.st_error = "none"

\* a run of the Advanced Physics page at the lower end of its sliders for
\* gate length, oxide thickness and temperature, conducting
C21_Witness ==
    /\ ret.fn = "show_advanced_physics"
    /\ Eq(args.gate_length, Num(10))
    /\ Eq(args.oxide_thickness, Dec(5, -1))
    /\ Eq(args.temperature, Num(-55))
    /\ ret.out.st_error = "none"
    /\ ret.out.results[1].value.region # "Cut-off"

\* the breakdown estimate of a call: the field in V/cm times the thickness in
\* centimetres, for a thickness argument in micrometres (1 um = 1e-4 cm)
BreakdownFormula(material, thickness) ==
    Mul(Mul(Field(material, "breakdown_field_value", Dec(3, -1)), Num(1000000)),
        Div(thickness, Num(10000)))

BreakdownCall == ret.fn = "calculate_breakdown_voltage"

\* the material with its breakdown field multiplied by c
ScaledField(material, c) ==
    [breakdown_field_value |->
         Mul(Field(material, "breakdown_field_value", Dec(3, -1)), c)]

\* C22: breakdown voltage estimate.  A call of calculate_breakdown_voltage
\* returns the breakdown field (MV/cm, 0.3 when the material has none) times
\* 1e6 V/cm times the thickness in centimetres; the value is linear in the
\* thickness (additive over the thicknesses explored, negative ones
\* included) and in the field (tripling the field triples it), and for
\* silicon and a thickness of 100 nm, passed as 0.1 um, it is 3 V.
C22_Breakdown ==
    BreakdownCall =>
        /\ ret.out.raised = "none"
        /\ Eq(ret.out.value.V_br,
              BreakdownFormula(args.material, args.thickness))
        /\ \A t \in BreakdownThickness :
               Eq(calculate_breakdown_voltage(
                      args.material, Add(args.thickness, t)).value.V_br,
                  Add(ret.out.value.V_br,
                      calculate_breakdown_voltage(args.material, t).value.V_br))
        /\ Eq(calculate_breakdown_voltage(
                  ScaledField(args.material, Num(3)), args.thickness).value.V_br,
              Mul(Num(3), ret.out.value.V_br))
        /\ (args.material \in {Silicon, EmptyDict}
            /\ Eq(args.thickness, Dec(1, -1)))
               => Eq(ret.out.value.V_br, Num(3))

\* the example: silicon, 100 nm
C22_Witness ==
    /\ BreakdownCall
    /\ args.material = Silicon
    /\ Eq(args.thickness, Dec(1, -1))
    /\ Eq(ret.out.value.V_br, Num(3))

QuantumCall ==
    ret.fn \in {"calculate_quantum_effects", "app_calculate_quantum_effects"}

\* the quantum estimate of the copy fn, called again with other arguments
QuantumAt(fn, material, t_ox, E_field) ==
    IF fn = "calculate_quantum_effects"
    THEN calculate_quantum_effects(material, t_ox, E_field)
    ELSE app_calculate_quantum_effects(material, t_ox, E_field)

\* the probability is the same for every material and every positive field
OnlyThickness(fn, t_ox, probability) ==
    \A material \in AuxMaterials : \A E_field \in FieldValues :
        Lt(Num(0), E_field) =>
            QuantumAt(fn, material, t_ox, E_field).value.tunneling_probability
                = probability

\* C23 (as stated): gate tunneling estimate.  A call of
\* calculate_quantum_effects, of either copy, that returns gives
\* tunneling_probability = 0 when E_field is zero or negative, whatever the
\* material and t_ox; for a positive field the probability depends on t_ox
\* only.
C23_Tunneling ==
    (QuantumCall /\ ret.out.raised = "none") =>
        IF Le(args.E_field, Num(0))
        THEN IsZero(ret.out.value.tunneling_probability.coef)
        ELSE OnlyThickness(ret.fn, args.t_ox,
                           ret.out.value.tunneling_probability)

\* What the code does: the copy in modules/advanced_physics.py is as stated,
\* with exp(-2 * k * t_ox) for a positive field; the copy in app_enhanced.py
\* never looks at the field and gives 1e-6 below 3 nm and 1e-9 from 3 nm on.
TunnelingByCopy ==
    /\ (ret.fn = "calculate_quantum_effects" /\ ret.out.raised = "none") =>
           IF Le(args.E_field, Num(0))
           THEN IsZero(ret.out.value.tunneling_probability.coef)
           ELSE /\ Eq(ret.out.value.tunneling_probability.coef, Num(1))
                /\ Eq(ret.out.value.tunneling_probability.k_times,
                      Mul(Num(-2), args.t_ox))
                /\ OnlyThickness(ret.fn, args.t_ox,
                                 ret.out.value.tunneling_probability)
    /\ (ret.fn = "app_calculate_quantum_effects" /\ ret.out.raised = "none") =>
           /\ IsZero(ret.out.value.tunneling_probability.k_times)
           /\ Eq(ret.out.value.tunneling_probability.coef,
                 IF Lt(args.t_ox, Dec(3, -9)) THEN Dec(1, -6) ELSE Dec(1, -9))

\* channel lengths to compare a call's with: 10 nm, 50 nm, 100 nm, 1 um
DiblLengths == {Dec(1, -8), Dec(5, -8), Dec(1, -7), Dec(1, -6)}

\* the call repeated on the same geometry with the channel length L
WithLength(L) ==
    ExtAt(ret.fn, args.V_gs, args.V_ds, args.material,
          [args.geometry EXCEPT !.length = L], args.temperature)

\* the threshold before DIBL: V_th0 - 0.002 * (T - 300)
ThresholdAtTemperature ==
    EffectiveVth(FieldVth, CelsiusOf(args.temperature), args.geometry, Num(0))

\* C24: DIBL, inverse-length relationship.  After a call of either variant
\* at V_ds > 0, the same call with a shorter (positive) channel returns a
\* strictly lower effective threshold: the reduction of the threshold by
\* DIBL, eta * V_ds with eta = 0.1 / L_um, is strictly larger for the shorter
\* channel.
C24_DiblInverseLength ==
    (ExtCall /\ ret.out.raised = "none" /\ Lt(Num(0), args.V_ds)) =>
        \A L1 \in DiblLengths :
            Lt(L1, args.geometry.length) =>
                LET shorter == WithLength(L1)
                    reduction == Sub(ThresholdAtTemperature,
                                     ret.out.value.effects.effective_vth)
                    reduction1 == Sub(ThresholdAtTemperature,
                                      shorter.value.effects.effective_vth)
                IN  /\ shorter.raised = "none"
                    /\ Lt(shorter.value.effects.effective_vth,
                          ret.out.value.effects.effective_vth)
                    /\ Lt(reduction, reduction1)
                    /\ Eq(reduction1,
                          Mul(Div(Dec(1, -1), Mul(L1, Num(1000000))),
                              args.V_ds))

\* a call on the 1 um channel at V_ds > 0, whose threshold the 10 nm channel
\* undercuts
C24_Witness ==
    /\ ExtCall
    /\ ret.out.raised = "none"
    /\ Lt(Num(0), args.V_ds)
    /\ Eq(args.geometry.length, Dec(1, -6))
    /\ Lt(WithLength(Dec(1, -8)).value.effects.effective_vth,
          ret.out.value.effects.effective_vth)

\* the other variant of the extended evaluator
OtherExt(fn) ==
    IF fn = "calculate_with_short_channel_effects"
    THEN "app_calculate_with_short_channel_effects"
    ELSE "calculate_with_short_channel_effects"

\* the same call made on the other variant
OtherVariant ==
    ExtAt(OtherExt(ret.fn), args.V_gs, args.V_ds, args.material,
          args.geometry, args.temperature)

\* two returned results with the same diagnostics, Cut-off together or not
\* at all, and no current in Cut-off
SameDiagnostics(r1, r2) ==
    /\ Eq(r1.effects.effective_vth, r2.effects.effective_vth)
    /\ Eq(r1.effects.dibl_effect, r2.effects.dibl_effect)
    /\ (r1.region = "Cut-off") = (r2.region = "Cut-off")
    /\ r1.region = "Cut-off" => (IsZero(r1.I_d) /\ IsZero(r2.I_d))

\* C25 (as stated): the two variants of the extended evaluator differ only
\* in the conduction current: for every input the other variant ends as the
\* variant called does, and both return the same effective_vth and
\* dibl_effect and agree on whether the region is Cut-off, with I_d = 0.
C25_VariantsAgree ==
    ExtCall =>
        /\ OtherVariant.raised = ret.out.raised
        /\ ret.out.raised = "none" =>
               SameDiagnostics(ret.out.value, OtherVariant.value)

\* What the code guarantees: whenever both variants return, they agree as
\* stated; the variant of app_enhanced.py returns wherever the variant of
\* modules/advanced_physics.py does.
VariantsAgreeWhenReturning ==
    ExtCall =>
        /\ (ret.out.raised = "none" /\ OtherVariant.raised = "none") =>
               SameDiagnostics(ret.out.value, OtherVariant.value)
        /\ (ret.fn = "calculate_with_short_channel_effects"
            /\ ret.out.raised = "none") => OtherVariant.raised = "none"

\* the two entries of an explanations dictionary that describe the branch
BranchEntries(dict) ==
    <<Get(dict, "current_calculation", <<>>), Get(dict, "operating_region", "")>>

\* the entries a returned (I_d, region) goes with: the text of the region
\* (it names the branch first) and the region
DescribesResult(dict, out) ==
    /\ {"current_calculation", "operating_region"} \subseteq DOMAIN dict
    /\ dict["operating_region"] = out.value.region
    /\ dict["current_calculation"][1] = out.value.region

\* C26: the branch description follows the last call.  In every step of a
\* sequence of non-overlapping calls: a call of calculate_drain_current that
\* returns leaves, in its object's explanations, operating_region equal to
\* the region it returns and current_calculation the text of that region;
\* any other call leaves both entries as they were, and
\* calculate_breakdown_voltage adds or replaces the entry 'breakdown' and
\* nothing else.  Hence the two entries are always those of the most recent
\* calculate_drain_current call that returned.
C26_BranchDescription ==
    [][/\ (ret'.fn = "calculate_drain_current" /\ ret'.out.raised = "none")
              => DescribesResult(explanations', ret'.out)
       /\ (ret'.fn = "app_calculate_drain_current" /\ ret'.out.raised = "none")
              => DescribesResult(app_explanations', ret'.out)
       /\ ret'.fn # "calculate_drain_current"
              => BranchEntries(explanations') = BranchEntries(explanations)
       /\ ret'.fn # "app_calculate_drain_current"
              => BranchEntries(app_explanations') =
                     BranchEntries(app_explanations)
       /\ ret'.fn = "calculate_breakdown_voltage"
              => /\ DOMAIN explanations' = DOMAIN explanations \cup {"breakdown"}
                 /\ \A key \in DOMAIN explanations \ {"breakdown"} :
                        explanations'[key] = explanations[key]
                 /\ app_explanations' = app_explanations
      ]_vars

\* calculate_breakdown_voltage has just returned on an object whose last
\* calculate_drain_current call was in Saturation: the description is still
\* there, beside the breakdown text
C26_Witness ==
    /\ ret.fn = "calculate_breakdown_voltage"
    /\ DOMAIN explanations =
           {"current_calculation", "operating_region", "breakdown"}
    /\ explanations["operating_region"] = "Saturation"
    /\ explanations["current_calculation"][1] = "Saturation"

\* mobility, C_ox, W and L of a basic call (defaults included) are positive
PositiveBasicParameters ==
    /\ Lt(Num(0), FieldMobility)
    /\ Lt(Num(0), FieldCox)
    /\ Lt(Num(0), FieldW)
    /\ Lt(Num(0), FieldL)

\* max(V_gs - V_th, 0)
Overdrive ==
    IF Lt(Sub(args.V_gs, FieldVth), Num(0)) THEN Num(0)
    ELSE Sub(args.V_gs, FieldVth)

\* 0.5 * mu_SI * C_ox * (W / L) * max(V_gs - V_th, 0)^2
CurrentCeiling ==
    Mul(Mul(Mul(Mul(Frac(1, 2), Mul(FieldMobility, Dec(1, -4))), FieldCox),
            Div(FieldW, FieldL)),
        Mul(Overdrive, Overdrive))

\* C27: basic evaluator, bounds of the current.  After a call of either copy
\* with positive mobility, C_ox, W and L and with V_ds >= 0, whatever V_gs
\* is, the call has returned and 0 <= I_d <= 0.5 * mu_SI * C_ox * (W / L) *
\* max(V_gs - V_th, 0)^2: the current is never negative and never above the
\* saturation current of that V_gs.
C27_CurrentBounds ==
    (BasicCall /\ PositiveBasicParameters /\ Le(Num(0), args.V_ds)) =>
        /\ ret.out.raised = "none"
        /\ Le(Num(0), ret.out.value.I_d)
        /\ Le(ret.out.value.I_d, CurrentCeiling)

\* a Linear call at V_ds > 0 whose current lies strictly between the bounds
C27_Witness ==
    /\ BasicCall
    /\ PositiveBasicParameters
    /\ Lt(Num(0), args.V_ds)
    /\ ret.out.raised = "none"
    /\ ret.out.value.region = "Linear"
    /\ Lt(Num(0), ret.out.value.I_d)
    /\ Lt(ret.out.value.I_d, CurrentCeiling)

\* C28: after any sequence of the builder page's operations (add a layer,
\* remove one layer by its button, clear all layers) every layer left in
\* builder.layers has its type among the keys of builder.layer_properties,
\* and the page's display of builder.layer_properties[layer['type']] never
\* fails with a missing key.
C28_LookupSafe ==
    /\ \A k \in 1..Len(builder.layers) :
           builder.layers[k].type \in DOMAIN builder.layer_properties
    /\ ret.fn = "show_custom_builder" => ret.out.raised = "none"

\* a layer was removed, and the page shows the layers that remain
C28_Witness ==
    /\ args.fn = "remove"
    /\ ret.fn = "show_custom_builder"
    /\ builder.layers # <<>>
    /\ ret.out.raised = "none"
    /\ Len(ret.out.value) = Len(builder.layers)

\* the stack before the step without its j-th layer, in the same order
WithoutLayer(j) ==
    /\ j \in 1..Len(builder.layers)
    /\ Len(builder'.layers) = Len(builder.layers) - 1
    /\ \A k \in 1..Len(builder'.layers) :
           builder'.layers[k] = builder.layers[IF k < j THEN k ELSE k + 1]

\* C29: add_layer puts the layer at the end of layers and makes
\* layer_properties[t], t the layer's type, the explanation generated from
\* that layer, leaving the other types' explanations; a removal takes one
\* layer out of layers, keeps the order of the rest and leaves
\* layer_properties as it was (so an explanation outlives its layer and
\* serves older layers of its type); only clear-all empties layer_properties.
C29_LastWriterWins ==
    [][\/ /\ args'.fn = "add_layer"
          /\ Len(builder'.layers) = Len(builder.layers) + 1
          /\ \A k \in 1..Len(builder.layers) :
                 builder'.layers[k] = builder.layers[k]
          /\ builder'.layers[Len(builder'.layers)] = args'.layer
          /\ DOMAIN builder'.layer_properties
                 = DOMAIN builder.layer_properties \cup {args'.layer.type}
          /\ builder'.layer_properties[args'.layer.type]
                 = generate_layer_explanation(args'.layer)
          /\ \A t \in DOMAIN builder.layer_properties \ {args'.layer.type} :
                 builder'.layer_properties[t] = builder.layer_properties[t]
       \/ /\ args'.fn = "remove"
          /\ \E j \in 1..Len(builder.layers) : WithoutLayer(j)
          /\ builder'.layer_properties = builder.layer_properties
       \/ /\ args'.fn = "clear"
          /\ builder'.layers = <<>>
          /\ DOMAIN builder'.layer_properties = {}
      ]_vars

\* the explanation of a type comes from a layer no longer in the stack, while
\* an older layer of that type, with an explanation of its own, is still there
C29_Witness ==
    \E k \in 1..Len(builder.layers) :
        /\ builder.layers[k].type \in DOMAIN builder.layer_properties
        /\ \A j \in 1..Len(builder.layers) :
               builder.layers[j].type = builder.layers[k].type
                   => generate_layer_explanation(builder.layers[j])
                          # builder.layer_properties[builder.layers[k].type]

\* a call of simulate_advanced_application, of either copy, has returned
ApplicationCall ==
    ret.fn \in {"simulate_advanced_application",
                "app_simulate_advanced_application"}

\* the routine written for an application of the table, in the copy called
RoutineResult(material) ==
    IF ret.fn = "simulate_advanced_application"
    THEN CASE args.application_name = "Electric Vehicle Motor Drive"
                  -> simulate_ev_drive(material, args.operating_conditions)
           [] args.application_name = "5G Base Station PA"
                  -> simulate_5g_pa(material, args.operating_conditions)
           [] args.application_name = "Server CPU Power Delivery"
                  -> simulate_cpu_vrm(material, args.operating_conditions)
           [] args.application_name = "Solar Microinverter"
                  -> simulate_solar_inverter(material, args.operating_conditions)
    ELSE CASE args.application_name = "Electric Vehicle Motor Drive"
                  -> app_simulate_ev_drive(material, args.operating_conditions)
           [] args.application_name = "5G Base Station PA"
                  -> app_simulate_5g_pa(material, args.operating_conditions)
           [] args.application_name = "Server CPU Power Delivery"
                  -> app_simulate_cpu_vrm(material, args.operating_conditions)
           [] args.application_name = "Solar Microinverter"
                  -> app_simulate_solar_inverter(material, args.operating_conditions)

\* the values the fields fall back to for a material outside the tables:
\* the numbers and the texts that both copies give
DefaultFields(result) ==
    /\ "efficiency" \in DOMAIN result =>
           Eq(result.efficiency,
              CASE args.application_name = "Electric Vehicle Motor Drive" -> Num(95)
                [] args.application_name = "Server CPU Power Delivery" -> Num(85)
                [] args.application_name = "Solar Microinverter" -> Num(94))
    /\ "power_added_efficiency" \in DOMAIN result =>
           Eq(result.power_added_efficiency, Num(30))
    /\ "power_loss_reduction" \in DOMAIN result =>
           Eq(result.power_loss_reduction, Num(0))
    /\ "system_weight" \in DOMAIN result => Eq(result.system_weight, Num(100))
    /\ "power_density" \in DOMAIN result => Eq(result.power_density, Num(100))
    /\ "cooling_requirements" \in DOMAIN result =>
           result.cooling_requirements = "Liquid cooling"
    /\ "cost_analysis" \in DOMAIN result =>
           result.cost_analysis
               = IF ret.fn = "simulate_advanced_application" THEN "Medium" ELSE "Low"
    /\ \A field \in {"linearity", "thermal_stability", "transient_response",
                     "reliability"} :
           field \in DOMAIN result => result[field] = "Good"
    /\ "lifetime" \in DOMAIN result => result.lifetime = "15+ years"

\* C30: simulate_advanced_application returns the result of the routine
\* written for the application when the name is one of the table's four; for
\* every other name it fails with a missing-key error at the table lookup, so
\* the general-application result is never returned; a material of none of
\* the tables never makes the call fail and gives each field its default.
C30_Dispatch ==
    ApplicationCall =>
        /\ args.application_name \notin DOMAIN applications
               => ret.out.raised = "KeyError"
        /\ ret.out.raised = "none"
               => /\ args.application_name \in DOMAIN applications
                  /\ "performance" \notin DOMAIN ret.out.value
                  /\ ret.out.value
                         = RoutineResult(args.mosfet_params.channel_material)
        /\ (/\ args.application_name \in DOMAIN applications
            /\ "channel_material" \in DOMAIN args.mosfet_params)
               => ret.out.raised = "none"
        /\ (/\ args.application_name \in DOMAIN applications
            /\ "channel_material" \in DOMAIN args.mosfet_params
            /\ args.mosfet_params.channel_material
                   \notin DOMAIN MaterialTable(0, 0, 0))
               => DefaultFields(ret.out.value)

\* an application of the table was simulated for a material of none of the
\* tables, and the call returned
C30_Witness ==
    /\ ret.fn = "simulate_advanced_application"
    /\ args.application_name = "Electric Vehicle Motor Drive"
    /\ "channel_material" \in DOMAIN args.mosfet_params
    /\ args.mosfet_params.channel_material = "Germanium"
    /\ ret.out.raised = "none"
    /\ "power_loss_reduction" \in DOMAIN ret.out.value

====
